---- MODULE Spec2Model ----
(***************************************************************************)
(* A model of the GeoDataCheck validation framework (backend/validation):  *)
(* the rule registry, the validation engine, the default rule catalogue    *)
(* and the derived views of a validation result.                           *)
(*                                                                         *)
(* Texts (cell values, column names) are sequences of one-character        *)
(* strings, so that strip, lower, isdigit, int() and float() are computed  *)
(* character by character as Python computes them.  A cell is either NaN   *)
(* (the missing value pandas yields) or the text str(value) gives: every   *)
(* rule reads a cell only through pd.isna, str(value) and float(value).    *)
(***************************************************************************)
EXTENDS Integers, Sequences, FiniteSets, TLC

VARIABLES
    registry,     \* RuleRegistry._rules: sequence of rules in dict (insertion) order
    options,      \* the caller's options object, shared by reference across calls
    options0,     \* the options as the caller set them (a copy taken at construction)
    df,           \* the dataset of the most recent call
    columns,      \* config['columns'] of the most recent call
    rule_ids,     \* the rule_ids argument of the most recent call
    result,       \* what the most recent call produced
    previous,     \* what the call before the most recent one produced
    calls,        \* number of validate calls made so far
    breakdown,    \* the dimension breakdown last asked of the result, with its arguments
    pc,           \* "ready": the arguments of a call are set; "done": the call returned;
                  \* "reported": a breakdown of the result was taken; "detected": the
                  \* column mapping of the call was detected from the dataset
    sessions,     \* main.sessions: session id -> what upload and validate stored
    issued,       \* number of session ids handed out so far
    now,          \* datetime.now(), in minutes
    response      \* the answer to the most recent request, with the time it was made

vars ==
    <<registry, options, options0, df, columns, rule_ids, result, previous, calls, breakdown, pc,
      sessions, issued, now, response>>

\* the state of the web application
http == <<sessions, issued, now, response>>

----------------------------------------------------------------------------
(* Bounds of the model *)

MaxRows == 2         \* rows of a dataset
MaxRowsLong == 4     \* rows of a one-column dataset
MaxCalls == 2        \* calls made on one engine

----------------------------------------------------------------------------
(* Texts *)

NaN == <<"NaN">>                       \* float('nan') as pandas stores a missing cell
None == <<"None">>                     \* Python's None

Digits == {"0", "1", "2", "3", "4", "5", "6", "7", "8", "9"}
Whitespace == {" ", "\t", "\n"}

DigitVal(c) ==
    CASE c = "0" -> 0 [] c = "1" -> 1 [] c = "2" -> 2 [] c = "3" -> 3 [] c = "4" -> 4
      [] c = "5" -> 5 [] c = "6" -> 6 [] c = "7" -> 7 [] c = "8" -> 8 [] c = "9" -> 9

DigitChar(n) ==
    CASE n = 0 -> "0" [] n = 1 -> "1" [] n = 2 -> "2" [] n = 3 -> "3" [] n = 4 -> "4"
      [] n = 5 -> "5" [] n = 6 -> "6" [] n = 7 -> "7" [] n = 8 -> "8" [] n = 9 -> "9"

\* str.lower() on the letters a-z and the umlauts
LowerChar(c) ==
    CASE c = "A" -> "a" [] c = "B" -> "b" [] c = "C" -> "c" [] c = "D" -> "d"
      [] c = "E" -> "e" [] c = "F" -> "f" [] c = "G" -> "g" [] c = "H" -> "h"
      [] c = "I" -> "i" [] c = "J" -> "j" [] c = "K" -> "k" [] c = "L" -> "l"
      [] c = "M" -> "m" [] c = "N" -> "n" [] c = "O" -> "o" [] c = "P" -> "p"
      [] c = "Q" -> "q" [] c = "R" -> "r" [] c = "S" -> "s" [] c = "T" -> "t"
      [] c = "U" -> "u" [] c = "V" -> "v" [] c = "W" -> "w" [] c = "X" -> "x"
      [] c = "Y" -> "y" [] c = "Z" -> "z" [] c = "Ä" -> "ä" [] c = "Ö" -> "ö"
      [] c = "Ü" -> "ü"
      [] OTHER -> c

Lower(s) == [i \in DOMAIN s |-> LowerChar(s[i])]

\* str.upper() on the letters a-z and the umlauts
UpperChar(c) ==
    CASE c = "a" -> "A" [] c = "b" -> "B" [] c = "c" -> "C" [] c = "d" -> "D"
      [] c = "e" -> "E" [] c = "f" -> "F" [] c = "g" -> "G" [] c = "h" -> "H"
      [] c = "i" -> "I" [] c = "j" -> "J" [] c = "k" -> "K" [] c = "l" -> "L"
      [] c = "m" -> "M" [] c = "n" -> "N" [] c = "o" -> "O" [] c = "p" -> "P"
      [] c = "q" -> "Q" [] c = "r" -> "R" [] c = "s" -> "S" [] c = "t" -> "T"
      [] c = "u" -> "U" [] c = "v" -> "V" [] c = "w" -> "W" [] c = "x" -> "X"
      [] c = "y" -> "Y" [] c = "z" -> "Z" [] c = "ä" -> "Ä" [] c = "ö" -> "Ö"
      [] c = "ü" -> "Ü"
      [] OTHER -> c

Upper(s) == [i \in DOMAIN s |-> UpperChar(s[i])]

RECURSIVE LStrip(_)
LStrip(s) == IF s # <<>> /\ Head(s) \in Whitespace THEN LStrip(Tail(s)) ELSE s

RECURSIVE RStrip(_)
RStrip(s) ==
    IF s # <<>> /\ s[Len(s)] \in Whitespace THEN RStrip(SubSeq(s, 1, Len(s) - 1)) ELSE s

\* str.strip()
Strip(s) == RStrip(LStrip(s))

Contains(s, c) == \E i \in DOMAIN s : s[i] = c

\* first position of character c in s, 0 when absent
FirstIndex(s, c) ==
    IF Contains(s, c) THEN CHOOSE i \in DOMAIN s : s[i] = c /\ \A j \in 1..(i - 1) : s[j] # c
    ELSE 0

AllDigits(s) == s # <<>> /\ \A i \in DOMAIN s : s[i] \in Digits

\* The superscript digit: str.isdigit() accepts it, int() does not.
SuperscriptDigits == {"^2"}

\* str.isdigit()
IsDigit(s) == s # <<>> /\ \A i \in DOMAIN s : s[i] \in Digits \cup SuperscriptDigits

----------------------------------------------------------------------------
(* Numbers.  TLC's integers are 32-bit: an integer the code computes that  *)
(* exceeds IntCap is represented by IntCap, which is above every threshold *)
(* the code compares an integer with (9999, 999999999).                    *)

IntCap == 2000000000

RECURSIVE Pow10(_)
Pow10(n) == IF n = 0 THEN 1 ELSE 10 * Pow10(n - 1)

RECURSIVE DropLeadingZeros(_)
DropLeadingZeros(s) ==
    IF Len(s) > 1 /\ Head(s) = "0" THEN DropLeadingZeros(Tail(s)) ELSE s

RECURSIVE DigitsValue(_)
\* value of a string of decimal digits of at most 9 significant digits
DigitsValue(s) ==
    IF s = <<>> THEN 0 ELSE DigitsValue(SubSeq(s, 1, Len(s) - 1)) * 10 + DigitVal(s[Len(s)])

\* value of a string of decimal digits, saturating at IntCap
NatOfDigits(s) ==
    LET t == DropLeadingZeros(s)
    IN  IF Len(t) > 9 THEN IntCap ELSE DigitsValue(t)

\* digits with an optional sign in front
IsSignedDigits(t) ==
    t # <<>> /\ AllDigits(IF Head(t) \in {"+", "-"} THEN Tail(t) ELSE t)

SignedValue(t) ==
    IF Head(t) = "-" THEN 0 - NatOfDigits(Tail(t))
    ELSE IF Head(t) = "+" THEN NatOfDigits(Tail(t))
    ELSE NatOfDigits(t)

ParseIntStripped(t) ==
    IF IsSignedDigits(t) THEN [kind |-> "ok", val |-> SignedValue(t)]
    ELSE [kind |-> "ValueError", val |-> 0]

\* int(str): [kind |-> "ok", val |-> n] or [kind |-> "ValueError"]
ParseInt(s) == ParseIntStripped(Strip(s))

RECURSIVE NatToStr(_)
NatToStr(n) == IF n < 10 THEN <<DigitChar(n)>> ELSE NatToStr(n \div 10) \o <<DigitChar(n % 10)>>

\* str(int)
IntToStr(n) == IF n < 0 THEN <<"-">> \o NatToStr(0 - n) ELSE NatToStr(n)

\* A float is [kind, neg, mant, exp]: kind "fin" stands for (-1)^neg * mant * 10^exp,
\* kinds "inf" and "nan" for the IEEE specials, kind "ValueError" for a text float()
\* rejects.  A decimal whose magnitude is 10^309 or more overflows to inf.
FloatErr == [kind |-> "ValueError", neg |-> FALSE, mant |-> 0, exp |-> 0]

FloatSpecial(kind, neg) == [kind |-> kind, neg |-> neg, mant |-> 0, exp |-> 0]

MaxFloatExp10 == 308

\* the text before the first c, and the text after it
Before(s, c) == IF Contains(s, c) THEN SubSeq(s, 1, FirstIndex(s, c) - 1) ELSE s
After(s, c) == IF Contains(s, c) THEN SubSeq(s, FirstIndex(s, c) + 1, Len(s)) ELSE <<>>

\* the float of significant digits sig scaled by 10^exp10
MakeFloat(neg, sig, exp10) ==
    IF NatOfDigits(sig) = 0 THEN [kind |-> "fin", neg |-> neg, mant |-> 0, exp |-> 0]
    ELSE IF Len(sig) + exp10 - 1 > MaxFloatExp10 THEN FloatSpecial("inf", neg)
    ELSE [kind |-> "fin", neg |-> neg, mant |-> NatOfDigits(sig), exp |-> exp10]

\* digits [. digits] [e [sign] digits], at least one digit in the mantissa
ParseDecimal(neg, ipart, fpart, hasexp, epart) ==
    IF \/ ipart \o fpart = <<>>
       \/ ~AllDigits(ipart \o fpart)
       \/ (hasexp /\ ~IsSignedDigits(epart))
    THEN FloatErr
    ELSE MakeFloat(neg, DropLeadingZeros(ipart \o fpart),
                   (IF hasexp THEN SignedValue(epart) ELSE 0) - Len(fpart))

ParseMantExp(neg, mpart, hasexp, epart) ==
    ParseDecimal(neg, Before(mpart, "."), After(mpart, "."), hasexp, epart)

ParseFloatBody(low, neg) ==
    IF low \in {<<"i", "n", "f">>, <<"i", "n", "f", "i", "n", "i", "t", "y">>}
    THEN FloatSpecial("inf", neg)
    ELSE IF low = <<"n", "a", "n">> THEN FloatSpecial("nan", neg)
    ELSE ParseMantExp(neg, Before(low, "e"), Contains(low, "e"), After(low, "e"))

ParseFloatStripped(t) ==
    IF t = <<>> THEN FloatErr
    ELSE IF Head(t) \in {"+", "-"} THEN ParseFloatBody(Lower(Tail(t)), Head(t) = "-")
    ELSE ParseFloatBody(Lower(t), FALSE)

\* float(str)
ParseFloat(s) == ParseFloatStripped(Strip(s))

\* float(value) of a cell: float(nan) is nan, a text is parsed
FloatOfCell(v) ==
    IF v = NaN THEN [kind |-> "nan", neg |-> FALSE, mant |-> 0, exp |-> 0] ELSE ParseFloat(v)

\* int(float): truncation toward zero; [kind |-> "ok", val] or the exception raised
IntOfFloat(f) ==
    CASE f.kind = "nan" -> [kind |-> "ValueError", val |-> 0]
      [] f.kind = "inf" -> [kind |-> "OverflowError", val |-> 0]
      [] f.kind = "ValueError" -> [kind |-> "ValueError", val |-> 0]
      [] OTHER ->
            LET mag == IF f.exp >= 0
                       THEN (IF f.exp > 9 \/ f.mant > IntCap \div Pow10(f.exp)
                             THEN IntCap ELSE f.mant * Pow10(f.exp))
                       ELSE (IF 0 - f.exp > 9 THEN 0 ELSE f.mant \div Pow10(0 - f.exp))
            IN  [kind |-> "ok", val |-> IF f.neg THEN 0 - mag ELSE mag]

\* str(value) of a cell: str(nan) is 'nan'
Str(v) == IF v = NaN THEN <<"n", "a", "n">> ELSE v

\* pd.isna(value) or str(value).strip() == ''
IsBlank(v) == v = NaN \/ Strip(Str(v)) = <<>>

----------------------------------------------------------------------------
(* Datasets, configuration, findings *)

\* A dataset is [columns |-> sequence of names, rows |-> sequence of rows], a row
\* being the sequence of its cells in column order.  Row i of the model (1-based)
\* has row_index i - 1 (the RangeIndex label iterrows yields).
NumRows(d) == Len(d.rows)

InColumns(d, name) == \E j \in DOMAIN d.columns : d.columns[j] = name

ColIndex(d, name) == CHOOSE j \in DOMAIN d.columns :
                        d.columns[j] = name /\ \A k \in 1..(j - 1) : d.columns[k] # name

\* row[col]
Cell(d, i, name) == d.rows[i][ColIndex(d, name)]

\* dict.get(key, default)
Get(dict, key, default) == IF key \in DOMAIN dict THEN dict[key] ELSE default

\* logical column names
L_plz == <<"p", "l", "z">>
L_ort == <<"o", "r", "t">>
L_strasse == <<"s", "t", "r", "a", "s", "s", "e">>
L_kanton == <<"k", "a", "n", "t", "o", "n">>
L_egid == <<"e", "g", "i", "d">>
L_easting == <<"e", "a", "s", "t", "i", "n", "g">>
L_northing == <<"n", "o", "r", "t", "h", "i", "n", "g">>

ERROR == "error"
WARNING == "warning"
INFO == "info"

\* ValidationError(row_index, column, rule_id, severity, message): `message` is the
\* message's fixed text and `ref` the display rows it quotes.  The fields that only
\* echo inputs for display (rule_name, value, suggestion) are left out.
Finding(row, col, rid, sev, msg, ref) ==
    [row_index |-> row, column |-> col, rule_id |-> rid, severity |-> sev,
     message |-> msg, ref |-> ref]

\* What running a piece of a rule yields: the exception that left it ("" when
\* none) and the findings appended to `errors`.
Ok(errs) == [exc |-> "", errors |-> errs]
Raise(e) == [exc |-> e, errors |-> <<>>]

RECURSIVE ForEach(_, _, _)
\* for i in range(from, to + 1): Body(i); an exception ends the loop and the rule
ForEach(Body(_), from, to) ==
    IF from > to THEN Ok(<<>>)
    ELSE LET r == Body(from)
         IN  IF r.exc # "" THEN r
             ELSE LET rest == ForEach(Body, from + 1, to)
                  IN  IF rest.exc # "" THEN rest ELSE Ok(r.errors \o rest.errors)

\* for idx, row in df.iterrows(): Body(idx)
ForRows(Body(_), d) == ForEach(Body, 1, NumRows(d))

\* BaseRule.get_column
get_column(d, cols, logical_name) ==
    LET actual_col == Get(cols, logical_name, logical_name)
    IN  IF InColumns(d, actual_col) THEN actual_col
        ELSE IF \E j \in DOMAIN d.columns : Lower(d.columns[j]) = Lower(actual_col)
        THEN d.columns[CHOOSE j \in DOMAIN d.columns :
                          /\ Lower(d.columns[j]) = Lower(actual_col)
                          /\ \A k \in 1..(j - 1) : Lower(d.columns[k]) # Lower(actual_col)]
        ELSE None

\* BaseRule.is_applicable
is_applicable(required_columns, d, cols) ==
    \A r \in DOMAIN required_columns :
        InColumns(d, Get(cols, required_columns[r], required_columns[r]))

----------------------------------------------------------------------------
(* rules/address.py *)

SWISS_CANTONS ==
    {<<"A", "G">>, <<"A", "I">>, <<"A", "R">>, <<"B", "E">>, <<"B", "L">>, <<"B", "S">>,
     <<"F", "R">>, <<"G", "E">>, <<"G", "L">>, <<"G", "R">>, <<"J", "U">>, <<"L", "U">>,
     <<"N", "E">>, <<"N", "W">>, <<"O", "W">>, <<"S", "G">>, <<"S", "H">>, <<"S", "O">>,
     <<"S", "Z">>, <<"T", "G">>, <<"T", "I">>, <<"U", "R">>, <<"V", "D">>, <<"V", "S">>,
     <<"Z", "G">>, <<"Z", "H">>}

\* ord(c) of a capital letter
CodePoint(c) ==
    LET Capitals == <<"A", "B", "C", "D", "E", "F", "G", "H", "I", "J", "K", "L", "M", "N", "O", "P", "Q", "R", "S", "T", "U", "V", "W", "X", "Y", "Z">>
    IN  64 + (CHOOSE k \in DOMAIN Capitals : Capitals[k] = c)

RECURSIVE TextLess(_, _)
\* a < b on str: by the first differing character, a proper prefix being less
TextLess(a, b) ==
    IF b = <<>> THEN FALSE
    ELSE IF a = <<>> THEN TRUE
    ELSE IF Head(a) # Head(b) THEN CodePoint(Head(a)) < CodePoint(Head(b))
    ELSE TextLess(Tail(a), Tail(b))

RECURSIVE Sorted(_)
\* sorted(texts) of a set of texts
Sorted(texts) ==
    IF texts = {} THEN <<>>
    ELSE LET least == CHOOSE t \in texts : \A u \in texts \ {t} : TextLess(t, u)
         IN  <<least>> \o Sorted(texts \ {least})

\* RequiredFieldsRule.validate, lines 52-65: the pass over the rows for one field
RequiredFieldRows(d, col, message) ==
    LET Row(i) ==
            IF IsBlank(Cell(d, i, col))
            THEN Ok(<<Finding(i - 1, col, "R-ADDR-01", ERROR, message, <<>>)>>)
            ELSE Ok(<<>>)
    IN  IF col = None THEN Ok(<<>>) ELSE ForRows(Row, d)

\* RequiredFieldsRule.validate: one pass over the rows per required field
RequiredFieldsValidate(d, cols, opts) ==
    LET required_fields == <<<<L_plz, "PLZ fehlt oder ist leer">>,
                             <<L_ort, "Ort fehlt oder ist leer">>,
                             <<L_strasse, "Strasse fehlt oder ist leer">>>>
        Field(k) == RequiredFieldRows(d, get_column(d, cols, required_fields[k][1]),
                                      required_fields[k][2])
    IN  ForEach(Field, 1, Len(required_fields))

\* PLZFormatRule.validate, lines 102-109: str(int(float(plz_str))), kept as it is on
\* a ValueError; any other exception leaves the rule
PLZFromFloat(plz_str, n) ==
    CASE n.kind = "ok" -> [exc |-> "", str |-> IntToStr(n.val)]
      [] n.kind = "ValueError" -> [exc |-> "", str |-> plz_str]
      [] OTHER -> [exc |-> n.kind, str |-> plz_str]

\* PLZFormatRule.validate, lines 102-109: the text the checks are made on
PLZNormalize(plz_str) ==
    IF Contains(plz_str, ".") THEN PLZFromFloat(plz_str, IntOfFloat(ParseFloat(plz_str)))
    ELSE [exc |-> "", str |-> plz_str]

\* PLZFormatRule.validate, lines 131-140: not (1000 <= int(plz_str) <= 9999)
PLZRange(i, col, n) ==
    IF n.kind # "ok" THEN Raise(n.kind)
    ELSE IF ~(1000 <= n.val /\ n.val <= 9999)
    THEN Ok(<<Finding(i - 1, col, "R-ADDR-02", ERROR, "PLZ ausserhalb gueltiger Bereich", <<>>)>>)
    ELSE Ok(<<>>)

\* PLZCheck testing the range before the length
PLZCheck_RangeFirst(i, col, plz_str) ==
    IF ~IsDigit(plz_str)
    THEN Ok(<<Finding(i - 1, col, "R-ADDR-02", ERROR, "PLZ muss numerisch sein", <<>>)>>)
    ELSE IF PLZRange(i, col, ParseInt(plz_str)) # Ok(<<>>)
    THEN PLZRange(i, col, ParseInt(plz_str))
    ELSE IF Len(plz_str) # 4
    THEN Ok(<<Finding(i - 1, col, "R-ADDR-02", ERROR, "PLZ muss 4-stellig sein", <<>>)>>)
    ELSE Ok(<<>>)

\* PLZFormatRule.validate, lines 111-140: the decision chain on one value
PLZCheck(i, col, plz_str) ==
    IF ~IsDigit(plz_str)
    THEN Ok(<<Finding(i - 1, col, "R-ADDR-02", ERROR, "PLZ muss numerisch sein", <<>>)>>)
    ELSE IF Len(plz_str) # 4
    THEN Ok(<<Finding(i - 1, col, "R-ADDR-02", ERROR, "PLZ muss 4-stellig sein", <<>>)>>)
    ELSE PLZRange(i, col, ParseInt(plz_str))

PLZChecked(i, col, norm) ==
    IF norm.exc # "" THEN Raise(norm.exc) ELSE PLZCheck(i, col, norm.str)

\* PLZFormatRule.validate, lines 95-140: one row
PLZRow(i, col, value) ==
    IF IsBlank(value) THEN Ok(<<>>) ELSE PLZChecked(i, col, PLZNormalize(Strip(Str(value))))

PLZFormatOn(d, plz_col) ==
    LET Row(i) == PLZRow(i, plz_col, Cell(d, i, plz_col))
    IN  IF plz_col = None THEN Ok(<<>>) ELSE ForRows(Row, d)

\* PLZFormatRule.validate
PLZFormatValidate(d, cols, opts) == PLZFormatOn(d, get_column(d, cols, L_plz))

\* CantonRow comparing the value as written, without upper()
CantonRow_CaseSensitive(i, col, value) ==
    IF IsBlank(value) THEN Ok(<<>>)
    ELSE IF Strip(Str(value)) \notin SWISS_CANTONS
    THEN Ok(<<Finding(i - 1, col, "R-ADDR-04", ERROR, "Ungueltige Kantonsabkuerzung",
                      Sorted(SWISS_CANTONS))>>)
    ELSE Ok(<<>>)

\* CantonValidationRule.validate, lines 170-188: one row; the finding's ref holds the
\* codes its suggestion lists, sorted(SWISS_CANTONS)
CantonRow(i, col, value) ==
    IF IsBlank(value) THEN Ok(<<>>)
    ELSE IF Upper(Strip(Str(value))) \notin SWISS_CANTONS
    THEN Ok(<<Finding(i - 1, col, "R-ADDR-04", ERROR, "Ungueltige Kantonsabkuerzung",
                      Sorted(SWISS_CANTONS))>>)
    ELSE Ok(<<>>)

CantonValidationOn(d, kanton_col) ==
    LET Row(i) == CantonRow(i, kanton_col, Cell(d, i, kanton_col))
    IN  IF kanton_col = None THEN Ok(<<>>) ELSE ForRows(Row, d)

\* CantonValidationRule.validate
CantonValidationValidate(d, cols, opts) == CantonValidationOn(d, get_column(d, cols, L_kanton))

\* re.search(r'[<>{}|\\^~\[\]]', strasse)
StreetSpecialChars == {"<", ">", "{", "}", "|", "\\", "^", "~", "[", "]"}

\* StreetFormatRule.validate, lines 224-260: the decision chain on one value
StreetCheck(i, col, strasse) ==
    IF IsDigit(strasse)
    THEN Ok(<<Finding(i - 1, col, "R-ADDR-05", WARNING, "Strasse ist nur numerisch", <<>>)>>)
    ELSE IF Len(strasse) < 3
    THEN Ok(<<Finding(i - 1, col, "R-ADDR-05", WARNING, "Strassenname sehr kurz", <<>>)>>)
    ELSE IF \E k \in DOMAIN strasse : strasse[k] \in StreetSpecialChars
    THEN Ok(<<Finding(i - 1, col, "R-ADDR-05", WARNING,
                      "Strassenname enthaelt ungewoehnliche Zeichen", <<>>)>>)
    ELSE Ok(<<>>)

StreetRow(i, col, value) ==
    IF IsBlank(value) THEN Ok(<<>>) ELSE StreetCheck(i, col, Strip(Str(value)))

StreetFormatOn(d, strasse_col) ==
    LET Row(i) == StreetRow(i, strasse_col, Cell(d, i, strasse_col))
    IN  IF strasse_col = None THEN Ok(<<>>) ELSE ForRows(Row, d)

\* StreetFormatRule.validate
StreetFormatValidate(d, cols, opts) == StreetFormatOn(d, get_column(d, cols, L_strasse))

----------------------------------------------------------------------------
(* Comparison of floats *)

FNum(m, e) == [kind |-> "fin", neg |-> FALSE, mant |-> m, exp |-> e]

RECURSIVE NumDigits(_)
NumDigits(n) == IF n < 10 THEN 1 ELSE 1 + NumDigits(n \div 10)

FIsZero(a) == a.kind = "fin" /\ a.mant = 0

FNegative(a) == a.neg /\ ~FIsZero(a)

\* |a| < |b| for finite a, b: by order of magnitude, then at a common exponent
MagLess(a, b) ==
    IF b.mant = 0 THEN FALSE
    ELSE IF a.mant = 0 THEN TRUE
    ELSE LET oa == NumDigits(a.mant) + a.exp
             ob == NumDigits(b.mant) + b.exp
             e == IF a.exp < b.exp THEN a.exp ELSE b.exp
         IN  IF oa # ob THEN oa < ob
             ELSE a.mant * Pow10(a.exp - e) < b.mant * Pow10(b.exp - e)

\* |a| < |b| with infinities
AbsLess(a, b) ==
    IF a.kind = "inf" THEN FALSE
    ELSE IF b.kind = "inf" THEN TRUE
    ELSE MagLess(a, b)

\* a < b on floats: false whenever one of them is nan
FLess(a, b) ==
    IF a.kind = "nan" \/ b.kind = "nan" THEN FALSE
    ELSE IF FNegative(a) /\ ~FNegative(b) THEN TRUE
    ELSE IF ~FNegative(a) /\ FNegative(b) THEN FALSE
    ELSE IF FNegative(a) THEN AbsLess(b, a)
    ELSE AbsLess(a, b)

\* a <= b on floats
FLe(a, b) == a.kind # "nan" /\ b.kind # "nan" /\ ~FLess(b, a)

\* lo <= x <= hi
FBetween(lo, x, hi) == FLe(lo, x) /\ FLe(x, hi)

\* x % 1000 == 0 for a finite float
FMultipleOf1000(x) ==
    IF x.exp >= 0
    THEN x.exp >= 3 \/ (x.mant * Pow10(x.exp)) % 1000 = 0
    ELSE /\ 0 - x.exp <= 9
         /\ x.mant % Pow10(0 - x.exp) = 0
         /\ (x.mant \div Pow10(0 - x.exp)) % 1000 = 0

----------------------------------------------------------------------------
(* rules/coordinates.py *)

CH_BOUNDS_LV95 == [e_min |-> FNum(2485000, 0), e_max |-> FNum(2834000, 0),
                   n_min |-> FNum(1075000, 0), n_max |-> FNum(1296000, 0)]

CH_BOUNDS_WGS84 == [lon_min |-> FNum(59, -1), lon_max |-> FNum(105, -1),
                    lat_min |-> FNum(458, -1), lat_max |-> FNum(479, -1)]

\* detect_coordinate_system taking LV95 for whatever it does not recognise
detect_coordinate_system_DefaultLV95(e, n) ==
    IF /\ FLess(FNum(5, 0), e) /\ FLess(e, FNum(11, 0))
       /\ FLess(FNum(45, 0), n) /\ FLess(n, FNum(48, 0))
    THEN "WGS84"
    ELSE "LV95"

\* detect_coordinate_system
detect_coordinate_system(e, n) ==
    IF /\ FLess(FNum(2000000, 0), e) /\ FLess(e, FNum(3000000, 0))
       /\ FLess(FNum(1000000, 0), n) /\ FLess(n, FNum(2000000, 0))
    THEN "LV95"
    ELSE IF /\ FLess(FNum(5, 0), e) /\ FLess(e, FNum(11, 0))
            /\ FLess(FNum(45, 0), n) /\ FLess(n, FNum(48, 0))
    THEN "WGS84"
    ELSE "None"

\* CoordinatePresenceRow flagging a missing easting whatever the northing is
CoordinatePresenceRow_AnyMissingEasting(i, e_col, n_col, e_missing, n_missing) ==
    IF e_missing
    THEN Ok(<<Finding(i - 1, e_col, "R-COORD-01", WARNING,
                      "E-Koordinate fehlt (N-Koordinate vorhanden)", <<>>)>>)
    ELSE IF n_missing
    THEN Ok(<<Finding(i - 1, n_col, "R-COORD-01", WARNING,
                      "N-Koordinate fehlt (E-Koordinate vorhanden)", <<>>)>>)
    ELSE Ok(<<>>)

\* CoordinatePresenceRule.validate, lines 67-93: one row
CoordinatePresenceRow(i, e_col, n_col, e_missing, n_missing) ==
    IF e_missing /\ ~n_missing
    THEN Ok(<<Finding(i - 1, e_col, "R-COORD-01", WARNING,
                      "E-Koordinate fehlt (N-Koordinate vorhanden)", <<>>)>>)
    ELSE IF n_missing /\ ~e_missing
    THEN Ok(<<Finding(i - 1, n_col, "R-COORD-01", WARNING,
                      "N-Koordinate fehlt (E-Koordinate vorhanden)", <<>>)>>)
    ELSE Ok(<<>>)

CoordinatePresenceOn(d, e_col, n_col) ==
    LET Row(i) == CoordinatePresenceRow(i, e_col, n_col, IsBlank(Cell(d, i, e_col)),
                                        IsBlank(Cell(d, i, n_col)))
    IN  IF e_col = None \/ n_col = None THEN Ok(<<>>) ELSE ForRows(Row, d)

\* CoordinatePresenceRule.validate
CoordinatePresenceValidate(d, cols, opts) ==
    CoordinatePresenceOn(d, get_column(d, cols, L_easting), get_column(d, cols, L_northing))

\* SwissBoundsCheck stopping at the first violated axis
SwissBoundsCheck_FirstAxisOnly(i, e_col, n_col, e, n, system) ==
    IF system = "LV95"
    THEN Ok(IF ~FBetween(CH_BOUNDS_LV95.e_min, e, CH_BOUNDS_LV95.e_max)
            THEN <<Finding(i - 1, e_col, "R-COORD-02", ERROR,
                           "E-Koordinate ausserhalb Schweiz", <<>>)>>
            ELSE IF ~FBetween(CH_BOUNDS_LV95.n_min, n, CH_BOUNDS_LV95.n_max)
            THEN <<Finding(i - 1, n_col, "R-COORD-02", ERROR,
                           "N-Koordinate ausserhalb Schweiz", <<>>)>>
            ELSE <<>>)
    ELSE Ok(IF ~FBetween(CH_BOUNDS_WGS84.lon_min, e, CH_BOUNDS_WGS84.lon_max)
            THEN <<Finding(i - 1, e_col, "R-COORD-02", ERROR,
                           "Longitude ausserhalb Schweiz", <<>>)>>
            ELSE IF ~FBetween(CH_BOUNDS_WGS84.lat_min, n, CH_BOUNDS_WGS84.lat_max)
            THEN <<Finding(i - 1, n_col, "R-COORD-02", ERROR,
                           "Latitude ausserhalb Schweiz", <<>>)>>
            ELSE <<>>)

\* SwissBoundsRule.validate, lines 166-210: the bounds check of one row
SwissBoundsCheck(i, e_col, n_col, e, n, system) ==
    IF system = "LV95"
    THEN Ok((IF ~FBetween(CH_BOUNDS_LV95.e_min, e, CH_BOUNDS_LV95.e_max)
             THEN <<Finding(i - 1, e_col, "R-COORD-02", ERROR,
                            "E-Koordinate ausserhalb Schweiz", <<>>)>>
             ELSE <<>>)
            \o
            (IF ~FBetween(CH_BOUNDS_LV95.n_min, n, CH_BOUNDS_LV95.n_max)
             THEN <<Finding(i - 1, n_col, "R-COORD-02", ERROR,
                            "N-Koordinate ausserhalb Schweiz", <<>>)>>
             ELSE <<>>))
    ELSE Ok((IF ~FBetween(CH_BOUNDS_WGS84.lon_min, e, CH_BOUNDS_WGS84.lon_max)
             THEN <<Finding(i - 1, e_col, "R-COORD-02", ERROR,
                            "Longitude ausserhalb Schweiz", <<>>)>>
             ELSE <<>>)
            \o
            (IF ~FBetween(CH_BOUNDS_WGS84.lat_min, n, CH_BOUNDS_WGS84.lat_max)
             THEN <<Finding(i - 1, n_col, "R-COORD-02", ERROR,
                            "Latitude ausserhalb Schweiz", <<>>)>>
             ELSE <<>>))

\* SwissBoundsRule.validate, lines 149-164: the system the bounds are taken from
SwissBoundsDetected(i, e_col, n_col, e, n, detected) ==
    IF detected = "None"
    THEN Ok(<<Finding(i - 1, e_col \o <<"/">> \o n_col, "R-COORD-02", ERROR,
                      "Koordinatensystem nicht erkennbar", <<>>)>>)
    ELSE SwissBoundsCheck(i, e_col, n_col, e, n, detected)

\* SwissBoundsRule.validate, lines 133-164: after float(e_val), float(n_val)
SwissBoundsParsed(i, e_col, n_col, e, n, coord_system) ==
    IF e.kind = "ValueError" \/ n.kind = "ValueError"
    THEN Ok(<<Finding(i - 1, e_col \o <<"/">> \o n_col, "R-COORD-02", ERROR,
                      "Ungueltige Koordinatenwerte", <<>>)>>)
    ELSE IF coord_system = "auto"
    THEN SwissBoundsDetected(i, e_col, n_col, e, n, detect_coordinate_system(e, n))
    ELSE SwissBoundsCheck(i, e_col, n_col, e, n, coord_system)

\* SwissBoundsRule.validate, lines 126-210: one row
SwissBoundsRow(i, e_col, n_col, e_val, n_val, coord_system) ==
    IF e_val = NaN \/ n_val = NaN THEN Ok(<<>>)
    ELSE SwissBoundsParsed(i, e_col, n_col, FloatOfCell(e_val), FloatOfCell(n_val),
                           coord_system)

SwissBoundsOn(d, e_col, n_col, coord_system) ==
    LET Row(i) == SwissBoundsRow(i, e_col, n_col, Cell(d, i, e_col), Cell(d, i, n_col),
                                 coord_system)
    IN  IF e_col = None \/ n_col = None THEN Ok(<<>>) ELSE ForRows(Row, d)

\* SwissBoundsRule.validate
SwissBoundsValidate(d, cols, opts) ==
    SwissBoundsOn(d, get_column(d, cols, L_easting), get_column(d, cols, L_northing),
                  Get(opts, "coordinate_system", "auto"))

\* CoordinatePrecisionRule.validate, lines 248-272: after float(e_val), float(n_val)
CoordinatePrecisionParsed(i, e_col, n_col, e, n) ==
    IF e.kind = "ValueError" \/ n.kind = "ValueError" THEN Ok(<<>>)
    ELSE IF detect_coordinate_system(e, n) # "LV95" THEN Ok(<<>>)
    ELSE IF FMultipleOf1000(e) /\ FMultipleOf1000(n)
    THEN Ok(<<Finding(i - 1, e_col \o <<"/">> \o n_col, "R-COORD-04", WARNING,
                      "Koordinaten ungewoehnlich rund (auf 1000m)", <<>>)>>)
    ELSE Ok(<<>>)

\* CoordinatePrecisionRule.validate, lines 241-272: one row
CoordinatePrecisionRow(i, e_col, n_col, e_val, n_val) ==
    IF e_val = NaN \/ n_val = NaN THEN Ok(<<>>)
    ELSE CoordinatePrecisionParsed(i, e_col, n_col, FloatOfCell(e_val), FloatOfCell(n_val))

CoordinatePrecisionOn(d, e_col, n_col) ==
    LET Row(i) == CoordinatePrecisionRow(i, e_col, n_col, Cell(d, i, e_col), Cell(d, i, n_col))
    IN  IF e_col = None \/ n_col = None THEN Ok(<<>>) ELSE ForRows(Row, d)

\* CoordinatePrecisionRule.validate
CoordinatePrecisionValidate(d, cols, opts) ==
    CoordinatePrecisionOn(d, get_column(d, cols, L_easting), get_column(d, cols, L_northing))

----------------------------------------------------------------------------
(* rules/egid.py *)

\* EGIDFormatRule.validate, lines 44-48: the integer the checks are made on
EGIDParse(egid_str) ==
    IF Contains(egid_str, ".") THEN IntOfFloat(ParseFloat(egid_str)) ELSE ParseInt(egid_str)

\* EGIDFormatRule.validate, lines 42-80: the try block and its except clause
EGIDFormatCheck(i, col, egid) ==
    IF egid.kind = "ValueError"
    THEN Ok(<<Finding(i - 1, col, "R-EGID-01", ERROR, "Ungueltiges EGID-Format", <<>>)>>)
    ELSE IF egid.kind # "ok" THEN Raise(egid.kind)
    ELSE IF egid.val <= 0
    THEN Ok(<<Finding(i - 1, col, "R-EGID-01", ERROR, "EGID muss positiv sein", <<>>)>>)
    ELSE IF egid.val > 999999999
    THEN Ok(<<Finding(i - 1, col, "R-EGID-01", WARNING, "EGID ungewoehnlich gross", <<>>)>>)
    ELSE Ok(<<>>)

\* EGIDFormatRule.validate, lines 36-80: one row
EGIDFormatRow(i, col, value) ==
    IF IsBlank(value) THEN Ok(<<>>) ELSE EGIDFormatCheck(i, col, EGIDParse(Strip(Str(value))))

EGIDFormatOn(d, egid_col) ==
    LET Row(i) == EGIDFormatRow(i, egid_col, Cell(d, i, egid_col))
    IN  IF egid_col = None THEN Ok(<<>>) ELSE ForRows(Row, d)

\* EGIDFormatRule.validate
EGIDFormatValidate(d, cols, opts) == EGIDFormatOn(d, get_column(d, cols, L_egid))

\* EGIDUniquenessRule.validate, lines 120-127: str(int(float(egid_str))); a ValueError
\* leaves the cell out, any other exception leaves the rule
EGIDKeyFromFloat(n) ==
    CASE n.kind = "ok" -> [kind |-> "key", key |-> IntToStr(n.val)]
      [] n.kind = "ValueError" -> [kind |-> "skip", key |-> <<>>]
      [] OTHER -> [kind |-> n.kind, key |-> <<>>]

EGIDKeyStr(egid_str) ==
    IF Contains(egid_str, ".") THEN EGIDKeyFromFloat(IntOfFloat(ParseFloat(egid_str)))
    ELSE [kind |-> "key", key |-> egid_str]

\* EGIDUniquenessRule.validate, lines 113-127: the key one cell is grouped under;
\* kind "skip" for a cell that is left out
EGIDKey(value) ==
    IF IsBlank(value) THEN [kind |-> "skip", key |-> <<>>] ELSE EGIDKeyStr(Strip(Str(value)))

\* EGIDUniquenessRule.validate, lines 133-147: the findings of the group that row i
\* opens, rows being the rows of its key in row order
EGIDGroupReport(i, col, rows) ==
    IF rows # <<>> /\ rows[1] = i /\ Len(rows) > 1
    THEN Ok([k \in 1..(Len(rows) - 1) |->
                Finding(rows[k + 1] - 1, col, "R-EGID-02", WARNING, "EGID kommt mehrfach vor",
                        [r \in 1..Len(rows) |-> rows[r] - 1 + 2])])
    ELSE Ok(<<>>)

\* EGIDUniquenessRule.validate, lines 110-147, keys[i] being the key of row i: the
\* groups are reported in the order their keys were first seen (dict order), each
\* group's rows after the first in row order
EGIDUniquenessKeys(d, egid_col, keys) ==
    LET Track(i) == IF keys[i].kind \in {"skip", "key"} THEN Ok(<<>>) ELSE Raise(keys[i].kind)
        Group(i) == LET Same(j) == keys[i].kind = "key" /\ keys[j] = keys[i]
                    IN  SelectSeq([j \in 1..NumRows(d) |-> j], Same)
        Report(i) == EGIDGroupReport(i, egid_col, Group(i))
    IN  IF ForRows(Track, d).exc # "" THEN ForRows(Track, d) ELSE ForRows(Report, d)

EGIDUniquenessOn(d, egid_col) ==
    IF egid_col = None THEN Ok(<<>>)
    ELSE EGIDUniquenessKeys(d, egid_col,
                            [i \in 1..NumRows(d) |-> EGIDKey(Cell(d, i, egid_col))])

\* EGIDUniquenessRule.validate
EGIDUniquenessValidate(d, cols, opts) == EGIDUniquenessOn(d, get_column(d, cols, L_egid))

\* EGIDPresenceRule.validate, lines 170-191: the pass over the rows
EGIDPresenceOn(d, egid_col) ==
    LET Row(i) ==
            IF IsBlank(Cell(d, i, egid_col))
            THEN Ok(<<Finding(i - 1, egid_col, "R-EGID-03", ERROR, "EGID fehlt", <<>>)>>)
            ELSE Ok(<<>>)
    IN  IF egid_col = None THEN Ok(<<>>) ELSE ForRows(Row, d)

\* EGIDPresenceRule.validate
EGIDPresenceValidate(d, cols, opts) == EGIDPresenceOn(d, get_column(d, cols, L_egid))

----------------------------------------------------------------------------
(* rules/general.py *)

RECURSIVE Join(_, _)
\* sep.join(texts)
Join(texts, sep) ==
    IF texts = <<>> THEN <<>>
    ELSE IF Len(texts) = 1 THEN texts[1]
    ELSE texts[1] \o <<sep>> \o Join(Tail(texts), sep)

\* hashlib.md5(row_str.encode()).hexdigest(): equal texts have equal digests, and
\* distinct texts are taken to have distinct digests (no MD5 collision)
md5(row_str) == row_str

\* DuplicateRowsRule.validate, lines 46-66, hashes[i] being the hash of row i: a row
\* whose hash was seen refers to the first row that has it
DuplicateRowsHashes(d, hashes) ==
    LET Row(i) ==
            IF \E j \in 1..(i - 1) : hashes[j] = hashes[i]
            THEN Ok(<<Finding(i - 1, <<"(", "a", "l", "l", "e", ")">>, "R-GEN-01", WARNING,
                              "Moegliches Duplikat von Zeile",
                              <<((CHOOSE j \in 1..(i - 1) :
                                     /\ hashes[j] = hashes[i]
                                     /\ \A k \in 1..(j - 1) : hashes[k] # hashes[i]) - 1) + 2>>)>>)
            ELSE Ok(<<>>)
    IN  ForRows(Row, d)

\* DuplicateRowsRule.validate, lines 41-51: the rows of check_df, hashed
DuplicateRowsOn(d, key_cols) ==
    DuplicateRowsHashes(d, [i \in 1..NumRows(d) |->
        md5(Join([k \in 1..Len(key_cols) |-> Str(Cell(d, i, key_cols[k]))], "|"))])

\* DuplicateRowsRule.validate, lines 34-43: key columns that exist, or all columns
DuplicateRowsGiven(d, given) ==
    LET Exists(c) == InColumns(d, c)
    IN  IF given # <<>>
        THEN (IF SelectSeq(given, Exists) = <<>> THEN Ok(<<>>)
              ELSE DuplicateRowsOn(d, SelectSeq(given, Exists)))
        ELSE DuplicateRowsOn(d, d.columns)

\* DuplicateRowsRule.validate
DuplicateRowsValidate(d, cols, opts) ==
    DuplicateRowsGiven(d, Get(opts, "duplicate_key_columns", <<>>))

\* EmptyRowsRule.validate
EmptyRowsValidate(d, cols, opts) ==
    LET Row(i) ==
            IF \A j \in DOMAIN d.rows[i] : IsBlank(d.rows[i][j])
            THEN Ok(<<Finding(i - 1, <<"(", "a", "l", "l", "e", ")">>, "R-GEN-02", INFO,
                              "Zeile ist komplett leer", <<>>)>>)
            ELSE Ok(<<>>)
    IN  ForRows(Row, d)

RECURSIVE AppendMapped(_, _, _, _)
\* DataTypeConsistencyRule.validate, lines 138-143: numeric_cols.append(col) for each
\* mapped logical name whose column is in the dataset and not yet in the list
AppendMapped(numeric_cols, logical_names, d, cols) ==
    IF logical_names = <<>> THEN numeric_cols
    ELSE LET logical_name == Head(logical_names)
             col == cols[logical_name]
             hit == /\ logical_name \in DOMAIN cols
                    /\ InColumns(d, col)
                    /\ \A k \in DOMAIN numeric_cols : numeric_cols[k] # col
         IN  AppendMapped(IF hit THEN Append(numeric_cols, col) ELSE numeric_cols,
                          Tail(logical_names), d, cols)

\* DataTypeConsistencyRule.validate, lines 135-143: the list the rule iterates.
\* options.get('numeric_columns', []) is the caller's own list when the key is set.
DataTypeNumericCols(d, cols, opts) ==
    AppendMapped(Get(opts, "numeric_columns", <<>>),
                 <<L_plz, L_egid, L_easting, L_northing>>, d, cols)

\* DataTypeConsistencyRule.validate, lines 135-143: the appends land in the caller's list
\* when options holds one, and in a fresh list otherwise
DataTypeOptionsAfter(d, cols, opts) ==
    IF "numeric_columns" \in DOMAIN opts
    THEN [opts EXCEPT !["numeric_columns"] = DataTypeNumericCols(d, cols, opts)]
    ELSE opts

\* DataTypeConsistencyRule.validate, lines 149-167: one row of one numeric column
DataTypeRow(i, col, value) ==
    IF IsBlank(value) THEN Ok(<<>>)
    ELSE IF FloatOfCell(value).kind = "ValueError"
    THEN Ok(<<Finding(i - 1, col, "R-GEN-03", WARNING,
                      "Nicht-numerischer Wert in numerischer Spalte", <<>>)>>)
    ELSE Ok(<<>>)

\* DataTypeConsistencyRule.validate, lines 145-167: the pass over one numeric column
DataTypeColumn(d, col) ==
    LET Row(i) == DataTypeRow(i, col, Cell(d, i, col))
    IN  IF ~InColumns(d, col) THEN Ok(<<>>) ELSE ForRows(Row, d)

DataTypeOn(d, numeric_cols) ==
    LET Column(k) == DataTypeColumn(d, numeric_cols[k])
    IN  ForEach(Column, 1, Len(numeric_cols))

\* DataTypeConsistencyRule.validate going through the list as the options gave it,
\* before the mapped columns were appended
DataTypeConsistencyValidate_BeforeAppend(d, cols, opts) ==
    DataTypeOn(d, Get(opts, "numeric_columns", <<>>))

\* DataTypeConsistencyRule.validate: one pass over the rows per numeric column
DataTypeConsistencyValidate(d, cols, opts) == DataTypeOn(d, DataTypeNumericCols(d, cols, opts))

\* EncodingIssuesRule.ENCODING_ISSUES; a character outside ASCII is written U+xxxx
ENCODING_ISSUES ==
    <<<<"U+FFFD">>, <<"U+00C3", "U+00BC">>, <<"U+00C3", "U+00A4">>, <<"U+00C3", "U+00B6">>,
      <<"U+00C3", "U+00A9">>, <<"U+00C3", "U+00A8">>, <<"U+00C3", " ">>, <<"U+0000">>>>

\* issue in value_str
HasSubstring(s, sub) ==
    \E k \in 0..(Len(s) - Len(sub)) : SubSeq(s, k + 1, k + Len(sub)) = sub

\* EncodingIssuesRule.validate, lines 207-226: one cell, reported once
EncodingCell(i, col, value) ==
    IF value = NaN THEN Ok(<<>>)
    ELSE IF \E k \in DOMAIN ENCODING_ISSUES : HasSubstring(Str(value), ENCODING_ISSUES[k])
    THEN Ok(<<Finding(i - 1, col, "R-GEN-04", WARNING, "Moegliches Kodierungsproblem", <<>>)>>)
    ELSE Ok(<<>>)

\* EncodingIssuesRule.validate, lines 205-226: the pass over one dataset column
EncodingColumn(d, j) ==
    LET Row(i) == EncodingCell(i, d.columns[j], d.rows[i][j])
    IN  ForRows(Row, d)

\* EncodingIssuesRule.validate: one pass over the rows per dataset column
EncodingIssuesValidate(d, cols, opts) ==
    LET Column(j) == EncodingColumn(d, j)
    IN  ForEach(Column, 1, Len(d.columns))

----------------------------------------------------------------------------
(* validation/__init__.py, validation/engine.py: registry and engine *)

\* A rule is [id, cls, required_columns]: metadata.id, the class whose validate it
\* runs, metadata.required_columns.
Rule(id, cls, required) == [id |-> id, cls |-> cls, required_columns |-> required]

\* rules.ALL_RULES, instantiated
ALL_RULES ==
    <<Rule("R-ADDR-01", "RequiredFieldsRule", <<>>),
      Rule("R-ADDR-02", "PLZFormatRule", <<L_plz>>),
      Rule("R-ADDR-04", "CantonValidationRule", <<L_kanton>>),
      Rule("R-ADDR-05", "StreetFormatRule", <<L_strasse>>),
      Rule("R-COORD-01", "CoordinatePresenceRule", <<L_easting, L_northing>>),
      Rule("R-COORD-02", "SwissBoundsRule", <<L_easting, L_northing>>),
      Rule("R-COORD-04", "CoordinatePrecisionRule", <<L_easting, L_northing>>),
      Rule("R-EGID-01", "EGIDFormatRule", <<L_egid>>),
      Rule("R-EGID-02", "EGIDUniquenessRule", <<L_egid>>),
      Rule("R-EGID-03", "EGIDPresenceRule", <<L_egid>>),
      Rule("R-GEN-01", "DuplicateRowsRule", <<>>),
      Rule("R-GEN-02", "EmptyRowsRule", <<>>),
      Rule("R-GEN-03", "DataTypeConsistencyRule", <<>>),
      Rule("R-GEN-04", "EncodingIssuesRule", <<>>)>>

\* A rule written against BaseRule whose validate raises (the docstring's MyRule
\* with a faulty body): what the engine's except clause is there for.
FailingRule == Rule("R-CUSTOM-01", "FailingRule", <<>>)

\* A rule written against BaseRule that reports every row under its own id (the
\* docstring's MyRule with a body that appends)
FlaggingRule(id) == Rule(id, "FlaggingRule", <<>>)

FlaggingValidate(id, d) ==
    Ok([i \in 1..NumRows(d) |-> Finding(i - 1, <<>>, id, ERROR, "flagged", <<>>)])

\* register taking out the rule of the same id and putting the new one at the end
register_MoveToEnd(reg, rule) ==
    LET Other(r) == r.id # rule.id
    IN  Append(SelectSeq(reg, Other), rule)

\* RuleRegistry.register: self._rules[rule.metadata.id] = rule.  A dict keeps a
\* key's position when its value is replaced.
register(reg, rule) ==
    IF \E k \in DOMAIN reg : reg[k].id = rule.id
    THEN [k \in DOMAIN reg |-> IF reg[k].id = rule.id THEN rule ELSE reg[k]]
    ELSE Append(reg, rule)

RECURSIVE RegisterAll(_, _)
RegisterAll(reg, rules) ==
    IF rules = <<>> THEN reg ELSE RegisterAll(register(reg, Head(rules)), Tail(rules))

\* create_default_registry
create_default_registry == RegisterAll(<<>>, ALL_RULES)

\* Python's None where a rule is expected
NoRule == [id |-> "None", cls |-> "None", required_columns |-> <<>>]

\* RuleRegistry.get_rule: the rule or None
get_rule(reg, rule_id) ==
    IF \E k \in DOMAIN reg : reg[k].id = rule_id
    THEN reg[CHOOSE k \in DOMAIN reg : reg[k].id = rule_id]
    ELSE NoRule

\* RuleRegistry.get_all_rules
get_all_rules(reg) == reg

\* rule.validate(df, config), by class
RuleValidate(rule, d, cols, opts) ==
    CASE rule.cls = "RequiredFieldsRule" -> RequiredFieldsValidate(d, cols, opts)
      [] rule.cls = "PLZFormatRule" -> PLZFormatValidate(d, cols, opts)
      [] rule.cls = "CantonValidationRule" -> CantonValidationValidate(d, cols, opts)
      [] rule.cls = "StreetFormatRule" -> StreetFormatValidate(d, cols, opts)
      [] rule.cls = "CoordinatePresenceRule" -> CoordinatePresenceValidate(d, cols, opts)
      [] rule.cls = "SwissBoundsRule" -> SwissBoundsValidate(d, cols, opts)
      [] rule.cls = "CoordinatePrecisionRule" -> CoordinatePrecisionValidate(d, cols, opts)
      [] rule.cls = "EGIDFormatRule" -> EGIDFormatValidate(d, cols, opts)
      [] rule.cls = "EGIDUniquenessRule" -> EGIDUniquenessValidate(d, cols, opts)
      [] rule.cls = "EGIDPresenceRule" -> EGIDPresenceValidate(d, cols, opts)
      [] rule.cls = "DuplicateRowsRule" -> DuplicateRowsValidate(d, cols, opts)
      [] rule.cls = "EmptyRowsRule" -> EmptyRowsValidate(d, cols, opts)
      [] rule.cls = "DataTypeConsistencyRule" -> DataTypeConsistencyValidate(d, cols, opts)
      [] rule.cls = "EncodingIssuesRule" -> EncodingIssuesValidate(d, cols, opts)
      [] rule.cls = "FlaggingRule" -> FlaggingValidate(rule.id, d)
      [] rule.cls = "FailingRule" -> Raise("RuntimeError")

\* what rule.validate leaves in the caller's options object
RuleOptionsAfter(rule, d, cols, opts) ==
    IF rule.cls = "DataTypeConsistencyRule" THEN DataTypeOptionsAfter(d, cols, opts) ELSE opts

\* ResolveRules going through the registry and keeping the rules that rule_ids names
ResolveRules_RegistryOrder(reg, rids) ==
    IF rids # None /\ rids # <<>>
    THEN LET Named(rule) == \E k \in DOMAIN rids : rids[k] = rule.id
         IN  SelectSeq(get_all_rules(reg), Named)
    ELSE get_all_rules(reg)

\* ValidationEngine.validate, lines 178-182: the rules to execute
ResolveRules(reg, rids) ==
    IF rids # None /\ rids # <<>>
    THEN LET Known(rid) == get_rule(reg, rid) # NoRule
             kept == SelectSeq(rids, Known)
         IN  [k \in 1..Len(kept) |-> get_rule(reg, kept[k])]
    ELSE get_all_rules(reg)

\* ValidationResult(total_rows=len(df)); `exc` is the exception that left validate
\* ("" when it returned), `opts` the options object as the rules leave it
NewResult(d, opts) ==
    [exc |-> "", total_rows |-> NumRows(d), errors |-> <<>>,
     rules_executed |-> <<>>, rules_skipped |-> <<>>, opts |-> opts]

\* The try block without its except clause: the exception leaves validate
ExecuteApplicable_NoExcept(res, rule, d, cols, r) ==
    [res EXCEPT !.exc = r.exc,
                !.errors = res.errors \o r.errors,
                !.rules_executed = Append(res.rules_executed, rule.id),
                !.opts = RuleOptionsAfter(rule, d, cols, res.opts)]

\* The try block recording the rule as executed before it calls validate
ExecuteApplicable_EarlyRecord(res, rule, d, cols, r) ==
    IF r.exc = ""
    THEN [res EXCEPT !.errors = res.errors \o r.errors,
                     !.rules_executed = Append(res.rules_executed, rule.id),
                     !.opts = RuleOptionsAfter(rule, d, cols, res.opts)]
    ELSE [res EXCEPT !.rules_executed = Append(res.rules_executed, rule.id),
                     !.rules_skipped = Append(res.rules_skipped, rule.id)]

\* The try block putting a rule's findings in front of the list instead of behind it
ExecuteApplicable_Prepend(res, rule, d, cols, r) ==
    IF r.exc = ""
    THEN [res EXCEPT !.errors = r.errors \o res.errors,
                     !.rules_executed = Append(res.rules_executed, rule.id),
                     !.opts = RuleOptionsAfter(rule, d, cols, res.opts)]
    ELSE [res EXCEPT !.rules_skipped = Append(res.rules_skipped, rule.id)]

\* ValidationEngine.validate, lines 187-194: the try block and its except clause, r
\* being what rule.validate came to
ExecuteApplicable(res, rule, d, cols, r) ==
    IF r.exc = ""
    THEN [res EXCEPT !.errors = res.errors \o r.errors,
                     !.rules_executed = Append(res.rules_executed, rule.id),
                     !.opts = RuleOptionsAfter(rule, d, cols, res.opts)]
    ELSE [res EXCEPT !.rules_skipped = Append(res.rules_skipped, rule.id)]

\* The loop body calling validate on a rule that is not applicable too, and keeping
\* what it reports
ExecuteRule_ValidateInapplicable(res, rule, d, cols) ==
    IF is_applicable(rule.required_columns, d, cols)
    THEN ExecuteApplicable(res, rule, d, cols, RuleValidate(rule, d, cols, res.opts))
    ELSE [res EXCEPT !.errors = res.errors \o RuleValidate(rule, d, cols, res.opts).errors,
                     !.rules_skipped = Append(res.rules_skipped, rule.id)]

\* ValidationEngine.validate, lines 186-196: one turn of the loop over the rules
ExecuteRule(res, rule, d, cols) ==
    IF is_applicable(rule.required_columns, d, cols)
    THEN ExecuteApplicable(res, rule, d, cols, RuleValidate(rule, d, cols, res.opts))
    ELSE [res EXCEPT !.rules_skipped = Append(res.rules_skipped, rule.id)]

RECURSIVE ExecuteRules(_, _, _, _)
\* for rule in rules; an exception that leaves the loop body ends the call
ExecuteRules(res, rules, d, cols) ==
    IF rules = <<>> \/ res.exc # "" THEN res
    ELSE ExecuteRules(ExecuteRule(res, Head(rules), d, cols), Tail(rules), d, cols)

\* ValidationEngine.validate
validate(reg, d, cols, opts, rids) ==
    ExecuteRules(NewResult(d, opts), ResolveRules(reg, rids), d, cols)

\* passed_rows counting the rows of findings of every severity
passed_rows_AnySeverity(res) ==
    res.total_rows - Cardinality({res.errors[k].row_index : k \in DOMAIN res.errors})

RECURSIVE CountSeverity(_, _)
\* sum(1 for e in self.errors if e.severity == severity)
CountSeverity(errs, severity) ==
    IF errs = <<>> THEN 0
    ELSE (IF Head(errs).severity = severity THEN 1 ELSE 0) + CountSeverity(Tail(errs), severity)

\* ValidationResult.error_count
error_count(res) == CountSeverity(res.errors, ERROR)

\* warning_count counting the rows that have a warning instead of the warnings
warning_count_PerRow(res) ==
    Cardinality({res.errors[k].row_index : k \in {j \in DOMAIN res.errors :
                                                     res.errors[j].severity = WARNING}})

\* ValidationResult.warning_count
warning_count(res) == CountSeverity(res.errors, WARNING)

\* ValidationResult.info_count
info_count(res) == CountSeverity(res.errors, INFO)

\* ValidationResult.passed_rows
passed_rows(res) ==
    res.total_rows
      - Cardinality({res.errors[k].row_index : k \in {j \in DOMAIN res.errors :
                                                       res.errors[j].severity = ERROR}})

\* round(x, 1) of the quotient num / den, in tenths: the nearest tenth, a tie to even
RoundTenths(num, den) ==
    LET q == (num * 10) \div den
        r == (num * 10) % den
    IN  IF 2 * r > den \/ (2 * r = den /\ q % 2 = 1) THEN q + 1 ELSE q

\* pass_rate without the special case of an empty dataset: 0 of 0 rows passed
pass_rate_NoEmptyCase(res) ==
    RoundTenths(passed_rows(res) * 100, IF res.total_rows > 0 THEN res.total_rows ELSE 1)

\* ValidationResult.to_dict()['pass_rate'], in tenths of a percent
pass_rate(res) ==
    IF res.total_rows > 0 THEN RoundTenths(passed_rows(res) * 100, res.total_rows) ELSE 1000

\* the characters of a rule id
IdText(id) ==
    CASE id = "R-ADDR-01" -> <<"R", "-", "A", "D", "D", "R", "-", "0", "1">>
      [] id = "R-ADDR-02" -> <<"R", "-", "A", "D", "D", "R", "-", "0", "2">>
      [] id = "R-ADDR-04" -> <<"R", "-", "A", "D", "D", "R", "-", "0", "4">>
      [] id = "R-ADDR-05" -> <<"R", "-", "A", "D", "D", "R", "-", "0", "5">>
      [] id = "R-COORD-01" -> <<"R", "-", "C", "O", "O", "R", "D", "-", "0", "1">>
      [] id = "R-COORD-02" -> <<"R", "-", "C", "O", "O", "R", "D", "-", "0", "2">>
      [] id = "R-COORD-04" -> <<"R", "-", "C", "O", "O", "R", "D", "-", "0", "4">>
      [] id = "R-EGID-01" -> <<"R", "-", "E", "G", "I", "D", "-", "0", "1">>
      [] id = "R-EGID-02" -> <<"R", "-", "E", "G", "I", "D", "-", "0", "2">>
      [] id = "R-EGID-03" -> <<"R", "-", "E", "G", "I", "D", "-", "0", "3">>
      [] id = "R-GEN-01" -> <<"R", "-", "G", "E", "N", "-", "0", "1">>
      [] id = "R-GEN-02" -> <<"R", "-", "G", "E", "N", "-", "0", "2">>
      [] id = "R-GEN-03" -> <<"R", "-", "G", "E", "N", "-", "0", "3">>
      [] id = "R-GEN-04" -> <<"R", "-", "G", "E", "N", "-", "0", "4">>
      [] id = "R-CUSTOM-01" -> <<"R", "-", "C", "U", "S", "T", "O", "M", "-", "0", "1">>
      [] id = "R-CUSTOM-02" -> <<"R", "-", "C", "U", "S", "T", "O", "M", "-", "0", "2">>
      [] id = "R-XYZ-01" -> <<"R", "-", "X", "Y", "Z", "-", "0", "1">>
      [] id = "NODASH" -> <<"N", "O", "D", "A", "S", "H">>

RECURSIVE Split(_, _)
\* str.split(sep)
Split(s, sep) ==
    IF Contains(s, sep) THEN <<Before(s, sep)>> \o Split(After(s, sep), sep) ELSE <<s>>

\* cat_map without its entry for CUSTOM
cat_map_NoCustom ==
    (<<"A", "D", "D", "R">> :> "address") @@ (<<"C", "O", "O", "R", "D">> :> "coordinates")
      @@ (<<"E", "G", "I", "D">> :> "egid") @@ (<<"G", "E", "N">> :> "general")

\* get_errors_by_category, line 80-81: cat_map
cat_map ==
    (<<"A", "D", "D", "R">> :> "address") @@ (<<"C", "O", "O", "R", "D">> :> "coordinates")
      @@ (<<"E", "G", "I", "D">> :> "egid") @@ (<<"G", "E", "N">> :> "general")
      @@ (<<"C", "U", "S", "T", "O", "M">> :> "custom")

\* counts[key] += 1 on a defaultdict(int)
Increment(counts, key) ==
    IF key \in DOMAIN counts THEN [counts EXCEPT ![key] = @ + 1] ELSE counts @@ (key :> 1)

\* get_errors_by_category, lines 78-83: one finding, parts being its split rule id
CategoryTally(counts, parts) ==
    IF Len(parts) >= 2 THEN Increment(counts, Get(cat_map, parts[2], "general")) ELSE counts

RECURSIVE CategoryCounts(_, _)
\* get_errors_by_category, lines 76-83: the loop over the findings
CategoryCounts(counts, errs) ==
    IF errs = <<>> THEN counts
    ELSE CategoryCounts(CategoryTally(counts, Split(IdText(Head(errs).rule_id), "-")), Tail(errs))

\* ValidationResult.get_errors_by_category
get_errors_by_category(res) == CategoryCounts(<<>>, res.errors)

RECURSIVE RuleCounts(_, _)
\* get_errors_by_rule, lines 89-90: the loop over the findings
RuleCounts(counts, errs) ==
    IF errs = <<>> THEN counts
    ELSE RuleCounts(Increment(counts, Head(errs).rule_id), Tail(errs))

\* ValidationResult.get_errors_by_rule
get_errors_by_rule(res) == RuleCounts(<<>>, res.errors)

\* the key of a missing value
T_leer == <<"(", "l", "e", "e", "r", ")">>

\* str(value) if pd.notna(value) else '(leer)'
DimKey(value) == IF value # NaN THEN Str(value) ELSE T_leer

\* result[dim_value][field] += 1 on a defaultdict of zeroed counts
DimBump(res, key, field) ==
    (key :> [Get(res, key, [total |-> 0, errors |-> 0, warnings |-> 0]) EXCEPT ![field] = @ + 1])
      @@ res

RECURSIVE DimensionTotals(_, _, _, _)
\* get_errors_by_dimension, lines 109-111: total rows per value, from row i on
DimensionTotals(res, d, dimension_col, i) ==
    IF i > NumRows(d) THEN res
    ELSE DimensionTotals(DimBump(res, DimKey(Cell(d, i, dimension_col)), "total"),
                         d, dimension_col, i + 1)

\* DimensionTally counting an INFO finding as a warning
DimensionTally_InfoAsWarning(res, d, dimension_col, error) ==
    IF error.row_index < NumRows(d)
    THEN (IF error.severity = ERROR
          THEN DimBump(res, DimKey(Cell(d, error.row_index + 1, dimension_col)), "errors")
          ELSE DimBump(res, DimKey(Cell(d, error.row_index + 1, dimension_col)), "warnings"))
    ELSE res

\* get_errors_by_dimension, lines 115-121: one finding
DimensionTally(res, d, dimension_col, error) ==
    IF error.row_index < NumRows(d)
    THEN (IF error.severity = ERROR
          THEN DimBump(res, DimKey(Cell(d, error.row_index + 1, dimension_col)), "errors")
          ELSE IF error.severity = WARNING
          THEN DimBump(res, DimKey(Cell(d, error.row_index + 1, dimension_col)), "warnings")
          ELSE res)
    ELSE res

RECURSIVE DimensionErrors(_, _, _, _)
\* get_errors_by_dimension, lines 114-121: the loop over the findings
DimensionErrors(res, errs, d, dimension_col) ==
    IF errs = <<>> THEN res
    ELSE DimensionErrors(DimensionTally(res, d, dimension_col, Head(errs)),
                         Tail(errs), d, dimension_col)

\* ValidationResult.get_errors_by_dimension
get_errors_by_dimension(res, d, dimension_col) ==
    IF ~InColumns(d, dimension_col) THEN <<>>
    ELSE DimensionErrors(DimensionTotals(<<>>, d, dimension_col, 1), res.errors, d, dimension_col)

\* detect_columns, lines 206-219: the synonyms of each logical name, in order
patterns ==
    <<[logical_name |-> <<"p", "l", "z">>,
       possible_names |->
         <<<<"p", "l", "z">>,
           <<"p", "o", "s", "t", "l", "e", "i", "t", "z", "a", "h", "l">>,
           <<"p", "o", "s", "t", "a", "l", "_", "c", "o", "d", "e">>,
           <<"z", "i", "p">>,
           <<"n", "p", "a">>>>],
      [logical_name |-> <<"o", "r", "t">>,
       possible_names |->
         <<<<"o", "r", "t">>,
           <<"s", "t", "a", "d", "t">>,
           <<"g", "e", "m", "e", "i", "n", "d", "e">>,
           <<"c", "i", "t", "y">>,
           <<"t", "o", "w", "n">>,
           <<"l", "o", "c", "a", "l", "i", "t", "y">>,
           <<"o", "r", "t", "s", "c", "h", "a", "f", "t">>>>],
      [logical_name |-> <<"s", "t", "r", "a", "s", "s", "e">>,
       possible_names |->
         <<<<"s", "t", "r", "a", "s", "s", "e">>,
           <<"s", "t", "r", "e", "e", "t">>,
           <<"a", "d", "r", "e", "s", "s", "e">>,
           <<"a", "d", "d", "r", "e", "s", "s">>,
           <<"s", "t", "r">>,
           <<"r", "u", "e">>>>],
      [logical_name |-> <<"h", "a", "u", "s", "n", "u", "m", "m", "e", "r">>,
       possible_names |->
         <<<<"h", "a", "u", "s", "n", "u", "m", "m", "e", "r">>,
           <<"h", "a", "u", "s", "n", "r">>,
           <<"n", "r">>,
           <<"n", "u", "m", "b", "e", "r">>,
           <<"n", "o">>>>],
      [logical_name |-> <<"k", "a", "n", "t", "o", "n">>,
       possible_names |->
         <<<<"k", "a", "n", "t", "o", "n">>,
           <<"k", "t">>,
           <<"c", "a", "n", "t", "o", "n">>,
           <<"s", "t", "a", "t", "e">>,
           <<"c", "t">>>>],
      [logical_name |-> <<"e", "g", "i", "d">>,
       possible_names |->
         <<<<"e", "g", "i", "d">>,
           <<"g", "e", "b", "ä", "u", "d", "e", "_", "i", "d">>,
           <<"b", "u", "i", "l", "d", "i", "n", "g", "_", "i", "d">>,
           <<"g", "e", "b", "_", "i", "d">>,
           <<"e", "g", "i", "d", "_", "e", "d", "i", "d">>>>],
      [logical_name |-> <<"e", "w", "i", "d">>,
       possible_names |->
         <<<<"e", "w", "i", "d">>,
           <<"w", "o", "h", "n", "u", "n", "g", "_", "i", "d">>,
           <<"d", "w", "e", "l", "l", "i", "n", "g", "_", "i", "d">>>>],
      [logical_name |-> <<"e", "a", "s", "t", "i", "n", "g">>,
       possible_names |->
         <<<<"e">>,
           <<"e", "_", "c", "o", "o", "r", "d">>,
           <<"x">>,
           <<"x", "_", "c", "o", "o", "r", "d">>,
           <<"e", "a", "s", "t", "i", "n", "g">>,
           <<"l", "o", "n">>,
           <<"l", "o", "n", "g", "i", "t", "u", "d", "e">>,
           <<"e", "_", "l", "v", "9", "5">>,
           <<"k", "o", "o", "r", "d", "i", "n", "a", "t", "e", "_", "e">>>>],
      [logical_name |-> <<"n", "o", "r", "t", "h", "i", "n", "g">>,
       possible_names |->
         <<<<"n">>,
           <<"n", "_", "c", "o", "o", "r", "d">>,
           <<"y">>,
           <<"y", "_", "c", "o", "o", "r", "d">>,
           <<"n", "o", "r", "t", "h", "i", "n", "g">>,
           <<"l", "a", "t">>,
           <<"l", "a", "t", "i", "t", "u", "d", "e">>,
           <<"n", "_", "l", "v", "9", "5">>,
           <<"k", "o", "o", "r", "d", "i", "n", "a", "t", "e", "_", "n">>>>],
      [logical_name |-> <<"r", "e", "g", "i", "o", "n">>,
       possible_names |->
         <<<<"r", "e", "g", "i", "o", "n">>,
           <<"g", "e", "b", "i", "e", "t">>,
           <<"z", "o", "n", "e">>,
           <<"a", "r", "e", "a">>>>],
      [logical_name |-> <<"p", "o", "r", "t", "f", "o", "l", "i", "o">>,
       possible_names |->
         <<<<"p", "o", "r", "t", "f", "o", "l", "i", "o">>,
           <<"p", "o", "r", "t", "f", "o", "l", "i", "o", "_", "t", "y", "p">>,
           <<"k", "a", "t", "e", "g", "o", "r", "i", "e">>,
           <<"t", "y", "p", "e">>,
           <<"a", "s", "s", "e", "t", "_", "t", "y", "p", "e">>,
           <<"o", "b", "j", "e", "k", "t", "t", "y", "p">>>>],
      [logical_name |-> <<"r", "e", "s", "p", "o", "n", "s", "i", "b", "l", "e">>,
       possible_names |->
         <<<<"v", "e", "r", "a", "n", "t", "w", "o", "r", "t", "l", "i", "c", "h">>,
           <<"z", "u", "s", "t", "ä", "n", "d", "i", "g">>,
           <<"o", "w", "n", "e", "r">>,
           <<"r", "e", "s", "p", "o", "n", "s", "i", "b", "l", "e">>,
           <<"b", "e", "a", "r", "b", "e", "i", "t", "e", "r">>,
           <<"s", "a", "c", "h", "b", "e", "a", "r", "b", "e", "i", "t", "e", "r">>>>]>>

RECURSIVE DfColsLower(_)
\* detect_columns, line 222: {col.lower(): col for col in df.columns}, a later column
\* taking the key of an earlier one
DfColsLower(cols) ==
    IF cols = <<>> THEN <<>>
    ELSE (Lower(cols[Len(cols)]) :> cols[Len(cols)]) @@ DfColsLower(SubSeq(cols, 1, Len(cols) - 1))

RECURSIVE Detect_LastName(_, _, _, _)
\* DetectName going on after a synonym is found, the last one found staying
Detect_LastName(detected, logical_name, possible_names, df_cols_lower) ==
    IF possible_names = <<>> THEN detected
    ELSE IF Head(possible_names) \in DOMAIN df_cols_lower
    THEN Detect_LastName((logical_name :> df_cols_lower[Head(possible_names)]) @@ detected,
                         logical_name, Tail(possible_names), df_cols_lower)
    ELSE Detect_LastName(detected, logical_name, Tail(possible_names), df_cols_lower)

RECURSIVE DetectName(_, _, _, _)
\* detect_columns, lines 225-228: the loop over the synonyms of one logical name, left
\* at the first that is a column
DetectName(detected, logical_name, possible_names, df_cols_lower) ==
    IF possible_names = <<>> THEN detected
    ELSE IF Head(possible_names) \in DOMAIN df_cols_lower
    THEN (logical_name :> df_cols_lower[Head(possible_names)]) @@ detected
    ELSE DetectName(detected, logical_name, Tail(possible_names), df_cols_lower)

RECURSIVE DetectAll(_, _, _)
\* detect_columns, lines 224-228: the loop over the logical names
DetectAll(detected, pats, df_cols_lower) ==
    IF pats = <<>> THEN detected
    ELSE DetectAll(DetectName(detected, Head(pats).logical_name, Head(pats).possible_names,
                              df_cols_lower),
                   Tail(pats), df_cols_lower)

\* ValidationEngine.detect_columns
detect_columns(d) == DetectAll(<<>>, patterns, DfColsLower(d.columns))

----------------------------------------------------------------------------
(* Inputs: the datasets, column mappings, options and rule_ids of a call *)

N_PLZ == <<"P", "L", "Z">>
N_Ort == <<"O", "r", "t">>
N_E == <<"E">>
N_N == <<"N">>

T_8001 == <<"8", "0", "0", "1">>
T_800 == <<"8", "0", "0">>
T_huge == <<"9", ".", "9", "e", "9", "9", "9">>
T_abc == <<"a", "b", "c">>
T_Bern == <<"B", "e", "r", "n">>
T_blank == <<" ">>
T_123 == <<"1", "2", "3">>
T_123_0 == <<"1", "2", "3", ".", "0">>
T_minus5 == <<"-", "5">>
T_2600000 == <<"2", "6", "0", "0", "0", "0", "0">>
T_1200000 == <<"1", "2", "0", "0", "0", "0", "0">>
T_1000000 == <<"1", "0", "0", "0", "0", "0", "0">>

T_8001_0 == <<"8", "0", "0", "1", ".", "0">>
T_ABCD == <<"A", "B", "C", "D">>
T_12000 == <<"1", "2", "0", "0", "0">>
T_0999 == <<"0", "9", "9", "9">>

T_7_5 == <<"7", ".", "5">>
T_46_9 == <<"4", "6", ".", "9">>
T_500000 == <<"5", "0", "0", "0", "0", "0">>

\* the tuples over a sequence of sets: the rows a frame's cell values give
RECURSIVE Product(_)
Product(sets) ==
    IF sets = <<>> THEN {<<>>}
    ELSE {<<x>> \o rest : x \in Head(sets), rest \in Product(Tail(sets))}

\* the sequences over S of length at most n
SeqUpTo(S, n) == UNION {[1..k -> S] : k \in 0..n}

\* the datasets with the given columns, cell values per column, and at most n rows
Datasets(cols, values, n) ==
    {[columns |-> cols, rows |-> rows] : rows \in SeqUpTo(Product(values), n)}

AddressDatasets ==
    Datasets(<<N_PLZ, N_Ort>>, <<{NaN, T_8001, T_800, T_huge}, {NaN, T_Bern}>>, MaxRows)

EgidDatasets ==
    Datasets(<<L_egid>>, <<{NaN, T_123, T_123_0, T_minus5, T_abc}>>, MaxRows)

CoordDatasets ==
    Datasets(<<N_E, N_N>>, <<{NaN, T_2600000, T_1000000, T_abc}, {T_blank, T_1200000}>>, MaxRows)

\* column mappings: none, the columns under their own names, names in another case
NoMapping == <<>>
ExactMapping ==
    (L_plz :> N_PLZ) @@ (L_ort :> N_Ort) @@ (L_egid :> L_egid)
      @@ (L_easting :> N_E) @@ (L_northing :> N_N)
LowerMapping ==
    (L_plz :> L_plz) @@ (L_ort :> L_ort) @@ (L_easting :> <<"e">>) @@ (L_northing :> <<"n">>)

Mappings == {NoMapping, ExactMapping, LowerMapping}

NoOptions == <<>>
OptionsSet ==
    {NoOptions,
     ("numeric_columns" :> <<>>),
     ("numeric_columns" :> <<N_Ort>>) @@ ("coordinate_system" :> "LV95")}

RuleIdLists ==
    {None, <<>>, <<"R-GEN-03", "R-ADDR-02">>, <<"R-XX-99", "R-ADDR-01", "R-ADDR-01">>,
     <<"R-CUSTOM-01", "R-EGID-01", "R-GEN-02">>}

Registries == {create_default_registry, register(create_default_registry, FailingRule)}

\* the arguments of one call
Inputs(datasets, mappings, ridlists) ==
    {[df |-> d, columns |-> m, rule_ids |-> r] :
        d \in datasets, m \in mappings, r \in ridlists}

MainInputs == Inputs(AddressDatasets \cup EgidDatasets \cup CoordDatasets, Mappings, RuleIdLists)

T_1 == <<"1">>
T_2 == <<"2">>

OrderInputs ==
    Inputs(Datasets(<<L_egid>>, <<{T_1, T_2}>>, MaxRowsLong)
             \cup Datasets(<<N_PLZ, N_Ort>>, <<{NaN, T_abc}, {NaN, T_abc}>>, MaxRows),
           {ExactMapping}, {None, <<"R-GEN-03", "R-ADDR-01", "R-ADDR-01">>})

CallOptions == {NoOptions, ("numeric_columns" :> <<>>)}

CallInputs ==
    Inputs(Datasets(<<N_PLZ>>, <<{T_8001, T_abc}>>, MaxRows), {NoMapping, ExactMapping}, {None})

\* postal codes of the documented examples, and a 4-digit one below 1000
PLZExampleInputs ==
    Inputs(Datasets(<<N_PLZ>>, <<{T_8001, T_8001_0, T_800, T_ABCD, T_12000, T_0999}>>, MaxRows),
           {ExactMapping}, {None, <<"R-ADDR-02">>})

T_456 == <<"4", "5", "6">>
T_a_c == <<"a", ".", "c">>

\* EGID columns of equal, differing, malformed and overflowing values
EgidGroupInputs ==
    Inputs(Datasets(<<L_egid>>, <<{T_123, T_123_0, T_456, T_abc, T_a_c, T_huge}>>, MaxRowsLong),
           {ExactMapping}, {None, <<"R-EGID-02">>})

T_a == <<"a">>
T_a_b == <<"a", "|", "b">>
T_c == <<"c">>
T_b_c == <<"b", "|", "c">>

DuplicateKeyOptions ==
    {NoOptions,
     ("duplicate_key_columns" :> <<N_PLZ>>),
     ("duplicate_key_columns" :> <<N_Ort, <<"x">>>>)}

\* two-column rows of texts with and without the separator of the row fingerprint
DuplicateInputs ==
    Inputs(Datasets(<<N_PLZ, N_Ort>>, <<{T_a, T_a_b}, {T_c, T_b_c}>>, MaxRowsLong),
           {ExactMapping}, {None, <<"R-GEN-01">>})

\* the default registry with rules of the caller's own, their ids with a CUSTOM
\* segment, with a segment of no category, and with no '-' at all
CustomRegistry ==
    RegisterAll(create_default_registry,
                <<FlaggingRule("R-CUSTOM-02"), FlaggingRule("R-XYZ-01"), FlaggingRule("NODASH")>>)

CategoryInputs ==
    Inputs(AddressDatasets, {ExactMapping},
           {None, <<"R-CUSTOM-02", "R-ADDR-01">>, <<"R-XYZ-01", "R-GEN-02">>,
            <<"NODASH", "R-ADDR-02">>})

\* rows whose city is missing, given, or the very text that stands for a missing one
DimensionInputs ==
    Inputs(Datasets(<<N_PLZ, N_Ort>>, <<{NaN, T_8001, T_800}, {NaN, T_Bern, T_leer}>>, MaxRows),
           {ExactMapping}, {None, <<"R-GEN-02", "R-ADDR-01", "R-GEN-01">>})

\* column names: synonyms in several cases, two synonyms of one logical name, and names
\* that are no synonym
ColumnNames ==
    {N_PLZ, L_plz, <<"Z", "i", "p">>, <<"N", "P", "A">>, N_Ort, <<"C", "i", "t", "y">>,
     N_E, <<"x">>, <<"L", "a", "t">>, <<"N", "a", "m", "e">>,
     <<"G", "e", "b", "Ä", "u", "d", "e", "_", "I", "D">>}

MaxColumns == 2

\* datasets of at most MaxColumns columns of different names, without rows or with
\* one row of postal codes; the caller gives no column mapping
DetectInputs ==
    Inputs({[columns |-> cols, rows |-> SubSeq(<<[j \in DOMAIN cols |-> T_8001]>>, 1, n)] :
              cols \in {c \in SeqUpTo(ColumnNames, MaxColumns) :
                          \A i, j \in DOMAIN c : c[i] = c[j] => i = j},
              n \in 0..1},
           {NoMapping}, {None})

\* rules a caller registers on top of the default ones: under a new id, under that id
\* again, under the id of a default rule, and a default rule once more
RegisterCandidates ==
    {FailingRule, FlaggingRule("R-CUSTOM-01"), FlaggingRule("R-ADDR-01"), ALL_RULES[1]}

\* calls to be made twice: all rules or one rule, on postal codes and EGIDs some of
\* which are no numbers
RepeatInputs ==
    Inputs(Datasets(<<N_PLZ, L_egid>>, <<{NaN, T_8001, T_abc, T_huge}, {T_123, T_abc}>>, MaxRows),
           Mappings, {None, <<"R-GEN-03">>, <<"R-ADDR-02">>, <<"R-EGID-02", "R-GEN-01">>})

N_Kt == <<"K", "t">>

\* canton cells: missing, blank, codes in either case and with spaces around, and
\* texts that are no code
CantonInputs ==
    Inputs(Datasets(<<N_Kt>>,
                    <<{NaN, T_blank, <<"z", "h">>, <<"Z", "H">>, <<" ", "B", "e", " ">>,
                       <<"X", "X">>, T_Bern}>>, MaxRows),
           {(L_kanton :> N_Kt)}, {None, <<"R-ADDR-04">>})

\* postal codes for every branch of the decision chain: missing, blank, valid, in
\* decimal form, too short, not numeric, below the range, and a decimal that overflows
PLZChainInputs ==
    Inputs(Datasets(<<N_PLZ>>,
                    <<{NaN, T_blank, T_8001, T_8001_0, T_800, T_ABCD, T_0999, T_huge}>>, MaxRows),
           {ExactMapping}, {None, <<"R-ADDR-02">>})

T_1234567890 == <<"1", "2", "3", "4", "5", "6", "7", "8", "9", "0">>

\* EGIDs for every branch of the format rule: missing, blank, valid, in decimal form,
\* negative, not numeric, of ten digits, and a decimal that overflows
EgidFormatInputs ==
    Inputs(Datasets(<<L_egid>>,
                    <<{NaN, T_blank, T_123, T_123_0, T_minus5, T_abc, T_1234567890, T_huge}>>,
                    MaxRows),
           {ExactMapping}, {None, <<"R-EGID-01">>})

\* coordinate pairs of the documented examples, and their mixtures
CoordExampleInputs ==
    Inputs(Datasets(<<N_E, N_N>>,
                    <<{T_2600000, T_7_5, T_1000000}, {T_1200000, T_46_9, T_500000}>>, MaxRows),
           {ExactMapping}, {None, <<"R-COORD-02">>})

T_2400000 == <<"2", "4", "0", "0", "0", "0", "0">>
T_1300000 == <<"1", "3", "0", "0", "0", "0", "0">>
T_5_5 == <<"5", ".", "5">>

\* options leaving the coordinate system to detection, or forcing it
BoundsOptions ==
    {NoOptions, ("coordinate_system" :> "LV95"), ("coordinate_system" :> "WGS84")}

\* coordinate pairs inside and outside the boxes and the detection windows: eastings
\* inside the LV95 box, in the LV95 window but west of the box, inside the WGS84 box,
\* in the WGS84 window but west of the box, in no window; northings likewise
BoundsInputs ==
    Inputs(Datasets(<<N_E, N_N>>,
                    <<{NaN, T_2600000, T_2400000, T_7_5, T_5_5, T_1000000},
                      {NaN, T_1200000, T_1300000, T_46_9}>>, MaxRows),
           {ExactMapping}, {<<"R-COORD-02">>})

\* coordinate pairs with either value null, blank, numeric or not numeric
PresenceInputs ==
    Inputs(Datasets(<<N_E, N_N>>,
                    <<{NaN, T_blank, T_2600000, T_abc}, {NaN, T_blank, T_1200000}>>, MaxRows),
           {ExactMapping}, {None, <<"R-COORD-01">>})

----------------------------------------------------------------------------
(* main.py *)

SESSION_TIMEOUT_MINUTES == 30

\* no request answered yet
NoResponse == [endpoint |-> "none", session_id |-> 0, status |-> 0, detail |-> "", at |-> 0]

Response(endpoint, session_id, status, detail, at) ==
    [endpoint |-> endpoint, session_id |-> session_id, status |-> status, detail |-> detail,
     at |-> at]

\* SessionData.is_expired
is_expired(data, t) == t > data.expires_at

\* cleanup_expired_sessions: only a SessionData instance can be expired
cleanup_expired_sessions(ss, t) ==
    LET expired == {sid \in DOMAIN ss : ss[sid].class = "SessionData" /\ is_expired(ss[sid], t)}
    IN  [sid \in DOMAIN ss \ expired |-> ss[sid]]

\* str.endswith
EndsWith(s, suffix) ==
    Len(s) >= Len(suffix) /\ SubSeq(s, Len(s) - Len(suffix) + 1, Len(s)) = suffix

\* upload_file, lines 194-198: the dict stored under the new session id, `class`
\* being the type of the stored object, which is no key of the dict
NewSession(d, filename, t) ==
    [class |-> "dict", df |-> d, filename |-> filename, created_at |-> t]

\* session['result'] = result; session['config'] = validation_config
WithResult(session, cols, res) ==
    ("result" :> [res EXCEPT !.opts = NoOptions])
      @@ ("config" :> [columns |-> cols, options |-> res.opts])
      @@ session

\* upload_file: the sessions and the answer, ss being the sessions after the clean-up
\* and session_id the uuid4 drawn.  The 400 raised for an empty file is inside the try
\* block and leaves it as the 400 of the except clause.
upload_file(ss, session_id, filename, d, t) ==
    IF ~(EndsWith(filename, <<".", "x", "l", "s", "x">>)
           \/ EndsWith(filename, <<".", "x", "l", "s">>))
    THEN [sessions |-> ss, issued |-> FALSE,
          response |-> Response("upload", 0, 400, "Invalid file format", t)]
    ELSE IF NumRows(d) = 0
    THEN [sessions |-> ss, issued |-> FALSE,
          response |-> Response("upload", 0, 400, "Error reading file", t)]
    ELSE [sessions |-> ss @@ (session_id :> NewSession(d, filename, t)), issued |-> TRUE,
          response |-> Response("upload", session_id, 200, "", t)]

\* validate_data keeping the result of the last validation in every session
validate_data_SharedResult(ss, session_id, cols, res, t) ==
    IF session_id \notin DOMAIN ss
    THEN [sessions |-> ss,
          response |-> Response("validate", session_id, 404, "Session not found or expired", t)]
    ELSE IF "df" \notin DOMAIN ss[session_id]
    THEN [sessions |-> ss,
          response |-> Response("validate", session_id, 404, "Session data not available", t)]
    ELSE [sessions |-> [sid \in DOMAIN ss |-> WithResult(ss[sid], cols, res)],
          response |-> Response("validate", session_id, 200, "", t)]

\* validate_data, lines 219-251: the sessions and the answer, ss being the sessions
\* after the clean-up, cols the column mapping of line 232 and res what
\* engine.validate returned with it
validate_data(ss, session_id, cols, res, t) ==
    IF session_id \notin DOMAIN ss
    THEN [sessions |-> ss,
          response |-> Response("validate", session_id, 404, "Session not found or expired", t)]
    ELSE IF "df" \notin DOMAIN ss[session_id]
    THEN [sessions |-> ss,
          response |-> Response("validate", session_id, 404, "Session data not available", t)]
    ELSE [sessions |-> [ss EXCEPT ![session_id] = WithResult(ss[session_id], cols, res)],
          response |-> Response("validate", session_id, 200, "", t)]

\* download_report: the answer, ss being the sessions after the clean-up
download_report(ss, session_id, t) ==
    IF session_id \notin DOMAIN ss
    THEN Response("download", session_id, 404, "Session not found or expired", t)
    ELSE IF "result" \notin DOMAIN ss[session_id]
    THEN Response("download", session_id, 400, "No validation results. Run validation first.", t)
    ELSE Response("download", session_id, 200, "", t)

\* delete_session: the sessions it leaves
delete_session(ss, session_id) == [sid \in DOMAIN ss \ {session_id} |-> ss[sid]]

----------------------------------------------------------------------------
(* The state machine: a caller holding an engine, an options object and the *)
(* arguments of a call                                                      *)

NoResult == NewResult([columns |-> <<>>, rows |-> <<>>], NoOptions)

NoBreakdown == [df |-> [columns |-> <<>>, rows |-> <<>>], column |-> None, value |-> <<>>]

InitWith(registries, optionsSet, inputs) ==
    /\ registry \in registries
    /\ options0 \in optionsSet
    /\ options = options0
    /\ \E i \in inputs : df = i.df /\ columns = i.columns /\ rule_ids = i.rule_ids
    /\ result = NoResult
    /\ previous = NoResult
    /\ breakdown = NoBreakdown
    /\ calls = 0
    /\ pc = "ready"
    /\ sessions = <<>>
    /\ issued = 0
    /\ now = 0
    /\ response = NoResponse

\* result = engine.validate(df, {'columns': columns, 'options': options}, rule_ids)
Call ==
    /\ pc \in {"ready", "detected"}
    /\ LET res == validate(registry, df, columns, options, rule_ids)
       IN  /\ result' = [res EXCEPT !.opts = NoOptions]
           /\ options' = res.opts
    /\ previous' = result
    /\ calls' = calls + 1
    /\ pc' = "done"
    /\ UNCHANGED <<registry, options0, df, columns, rule_ids, breakdown>>
    /\ UNCHANGED http

\* the caller sets the arguments of a further call, keeping its options object
Prepare(i) ==
    /\ pc = "done"
    /\ calls < MaxCalls
    /\ df' = i.df
    /\ columns' = i.columns
    /\ rule_ids' = i.rule_ids
    /\ pc' = "ready"
    /\ UNCHANGED <<registry, options, options0, result, previous, calls, breakdown>>
    /\ UNCHANGED http

\* One call of validate on each input of the main family.
Init == InitWith(Registries, OptionsSet, MainInputs)

Next == Call

Spec == Init /\ [][Next]_vars

\* One call on datasets long enough for several groups and several columns of findings.
InitOrder == InitWith({create_default_registry}, OptionsSet, OrderInputs)

SpecOrder == InitOrder /\ [][Next]_vars

\* Several calls in a row on one engine, the caller reusing its options object.
InitCalls == InitWith({create_default_registry}, CallOptions, CallInputs)

NextCalls == Call \/ \E i \in CallInputs : Prepare(i)

SpecCalls == InitCalls /\ [][NextCalls]_vars

\* One call on datasets of example postal codes.
InitPLZ == InitWith({create_default_registry}, OptionsSet, PLZExampleInputs)

SpecPLZ == InitPLZ /\ [][Next]_vars

\* One call on datasets of example coordinate pairs.
InitCoord == InitWith({create_default_registry}, OptionsSet, CoordExampleInputs)

SpecCoord == InitCoord /\ [][Next]_vars

\* One call on datasets of one EGID column.
InitEgid == InitWith({create_default_registry}, {NoOptions}, EgidGroupInputs)

SpecEgid == InitEgid /\ [][Next]_vars

\* One call on datasets of rows that repeat or nearly repeat.
InitDup == InitWith({create_default_registry}, DuplicateKeyOptions, DuplicateInputs)

SpecDup == InitDup /\ [][Next]_vars

\* result.get_errors_by_dimension(d, dimension_col) by a holder of the result, d being
\* the validated dataset or its first n rows
Breakdown(n, dimension_col) ==
    /\ pc = "done"
    /\ LET d == [df EXCEPT !.rows = SubSeq(df.rows, 1, n)]
       IN  breakdown' = [df |-> d, column |-> dimension_col,
                         value |-> get_errors_by_dimension(result, d, dimension_col)]
    /\ pc' = "reported"
    /\ UNCHANGED <<registry, options, options0, df, columns, rule_ids, result, previous, calls>>
    /\ UNCHANGED http

\* One call, then a breakdown of its result by a column.
InitDim == InitWith({create_default_registry}, {NoOptions}, DimensionInputs)

NextDim ==
    \/ Call
    \/ \E n \in 0..NumRows(df), col \in {df.columns[j] : j \in DOMAIN df.columns} \cup {<<"x">>} :
          Breakdown(n, col)

SpecDim == InitDim /\ [][NextDim]_vars

\* 'columns': config.columns or engine.detect_columns(df)
Detect ==
    /\ pc = "ready"
    /\ columns = NoMapping
    /\ columns' = detect_columns(df)
    /\ pc' = "detected"
    /\ UNCHANGED <<registry, options, options0, df, rule_ids, result, previous, calls, breakdown>>
    /\ UNCHANGED http

\* A caller without a column mapping: the mapping is detected, then the call made.
InitDetect == InitWith({create_default_registry}, {NoOptions}, DetectInputs)

NextDetect == Detect \/ Call

SpecDetect == InitDetect /\ [][NextDetect]_vars

\* registry.register(rule)
Register(rule) ==
    /\ pc = "ready"
    /\ registry' = register(registry, rule)
    /\ UNCHANGED <<options, options0, df, columns, rule_ids, result, previous, calls, breakdown,
                   pc>>
    /\ UNCHANGED http

\* Rules are registered on the engine's registry, then a call is made.
InitRegistry ==
    InitWith({create_default_registry}, {NoOptions}, Inputs(AddressDatasets, {ExactMapping}, {None}))

NextRegistry == Call \/ \E rule \in RegisterCandidates : Register(rule)

SpecRegistry == InitRegistry /\ [][NextRegistry]_vars

\* the caller makes the same call again: same dataset, same config object
Repeat ==
    /\ pc = "done"
    /\ calls < MaxCalls
    /\ pc' = "ready"
    /\ UNCHANGED <<registry, options, options0, df, columns, rule_ids, result, previous, calls,
                   breakdown>>
    /\ UNCHANGED http

\* One call made twice in a row.
InitRepeat == InitWith({create_default_registry}, OptionsSet, RepeatInputs)

NextRepeat == Call \/ Repeat

SpecRepeat == InitRepeat /\ [][NextRepeat]_vars

\* One call on datasets of a canton column.
InitCanton == InitWith({create_default_registry}, {NoOptions}, CantonInputs)

SpecCanton == InitCanton /\ [][Next]_vars

\* One call on datasets of postal codes of every kind.
InitPLZChain == InitWith({create_default_registry}, {NoOptions}, PLZChainInputs)

SpecPLZChain == InitPLZChain /\ [][Next]_vars

\* One call on datasets of EGIDs of every kind.
InitEgidFormat == InitWith({create_default_registry}, {NoOptions}, EgidFormatInputs)

SpecEgidFormat == InitEgidFormat /\ [][Next]_vars

\* One call on an engine that may hold rules of the caller's own.
InitCategory ==
    InitWith({create_default_registry, CustomRegistry}, {NoOptions}, CategoryInputs)

SpecCategory == InitCategory /\ [][Next]_vars

----------------------------------------------------------------------------
(* Properties of a call that has returned *)

Done == pc = "done"

Range(seq) == {seq[k] : k \in DOMAIN seq}

RECURSIVE Flatten(_)
Flatten(seqs) == IF seqs = <<>> THEN <<>> ELSE Head(seqs) \o Flatten(Tail(seqs))

\* the rules the call resolved, in the order it went through them
Resolved == ResolveRules(registry, rule_ids)

Applicable(rule) == is_applicable(rule.required_columns, df, columns)

\* what the rule's validate comes to on the arguments of the call
Outcome(rule) == RuleValidate(rule, df, columns, options0)

Raises(rule) == Applicable(rule) /\ Outcome(rule).exc # ""

\* the findings the rule returns to the engine: none when it is not run or raises
FindingsOf(rule) ==
    IF Applicable(rule) /\ Outcome(rule).exc = "" THEN Outcome(rule).errors ELSE <<>>

\* C1: failure isolation.  Whenever an applicable rule's validate raises, the call
\* still returns a result, the rule's id is in rules_skipped and not in
\* rules_executed, and the result holds the findings of every rule before and after
\* it: the finding list is the findings of the resolved rules that returned, in order.
C1_FailureIsolation ==
    Done =>
      /\ result.exc = ""
      /\ \A k \in DOMAIN Resolved :
            Raises(Resolved[k]) =>
              /\ Resolved[k].id \in Range(result.rules_skipped)
              /\ Resolved[k].id \notin Range(result.rules_executed)
      /\ result.errors = Flatten([k \in DOMAIN Resolved |-> FindingsOf(Resolved[k])])

\* a rule raised between a rule with findings and another rule with findings
C1_Witness ==
    /\ Done
    /\ \E k \in DOMAIN Resolved :
          /\ Raises(Resolved[k])
          /\ Resolved[k].id \in Range(result.rules_skipped)
          /\ \E j \in 1..(k - 1) : FindingsOf(Resolved[j]) # <<>>
          /\ \E j \in (k + 1)..Len(Resolved) : FindingsOf(Resolved[j]) # <<>>
          /\ \E f \in Range(result.errors) : f.rule_id = Resolved[k - 1].id

RegisteredIds == {registry[k].id : k \in DOMAIN registry}

ProcessedIds == Range(result.rules_executed) \cup Range(result.rules_skipped)

\* C2: rule selection.  Whenever a rule_ids list is given, the empty list included,
\* the rules processed are exactly the registered rules whose id is in the list.
C2_RuleSelection ==
    (Done /\ rule_ids # None) => ProcessedIds = RegisteredIds \cap Range(rule_ids)

\* C3: every resolved rule's id is in exactly one of rules_executed and
\* rules_skipped, the lengths of the two lists sum to the number of resolved rules,
\* and a rule that is not applicable is skipped, not executed, and has no finding.
C3_ExecutedSkippedPartition ==
    Done =>
      /\ Len(result.rules_executed) + Len(result.rules_skipped) = Len(Resolved)
      /\ Range(result.rules_executed) \cap Range(result.rules_skipped) = {}
      /\ \A k \in DOMAIN Resolved : Resolved[k].id \in ProcessedIds
      /\ \A k \in DOMAIN Resolved :
            ~Applicable(Resolved[k]) =>
              /\ Resolved[k].id \in Range(result.rules_skipped)
              /\ Resolved[k].id \notin Range(result.rules_executed)
              /\ \A f \in Range(result.errors) : f.rule_id # Resolved[k].id

\* a call that executed a rule, skipped a rule that is not applicable, and skipped a
\* rule that raised
C3_Witness ==
    /\ Done
    /\ result.rules_executed # <<>>
    /\ \E k \in DOMAIN Resolved :
          ~Applicable(Resolved[k]) /\ Resolved[k].id \in Range(result.rules_skipped)
    /\ \E k \in DOMAIN Resolved :
          Raises(Resolved[k]) /\ Resolved[k].id \in Range(result.rules_skipped)

\* every required column of the rule resolves to a dataset column, exactly or
\* case-insensitively
RequiredColumnsResolve(rule) ==
    \A k \in DOMAIN rule.required_columns :
        get_column(df, columns, rule.required_columns[k]) # None

\* C4: default applicability.  is_applicable is true iff every required column
\* matches a dataset column exactly or, failing that, case-insensitively.
C4_Applicability ==
    Done => \A k \in DOMAIN registry :
                Applicable(registry[k]) <=> RequiredColumnsResolve(registry[k])

\* the rows of the dataset, by row_index
RowIndices == 0..(result.total_rows - 1)

ErrorFindings == {f \in Range(result.errors) : f.severity = ERROR}

\* the rows no ERROR finding refers to
RowsWithoutError == {r \in RowIndices : \A f \in ErrorFindings : f.row_index # r}

\* the result with its WARNING and INFO findings taken out
ErrorsOnly ==
    LET IsError(f) == f.severity = ERROR
    IN  [result EXCEPT !.errors = SelectSeq(result.errors, IsError)]

\* C5: every ERROR finding's row_index is a row of the dataset, passed_rows is the
\* number of rows without an ERROR finding, WARNING and INFO findings do not lower
\* it, and it lies between 0 and total_rows.
C5_PassedRows ==
    Done =>
      /\ \A f \in ErrorFindings : f.row_index \in RowIndices
      /\ passed_rows(result) = Cardinality(RowsWithoutError)
      /\ passed_rows(result) = passed_rows(ErrorsOnly)
      /\ 0 <= passed_rows(result) /\ passed_rows(result) <= result.total_rows

\* a result with an ERROR finding on one row and only a WARNING or INFO finding on
\* another row, which passes
C5_Witness ==
    /\ Done
    /\ ErrorFindings # {}
    /\ \E f \in Range(result.errors) : f.severity # ERROR /\ f.row_index \in RowsWithoutError
    /\ passed_rows(result) \in 1..(result.total_rows - 1)

NoRequiredColumnIds == {"R-ADDR-01", "R-GEN-01", "R-GEN-02", "R-GEN-03", "R-GEN-04"}

\* C6: on a dataset with zero rows the result has total_rows 0, no findings,
\* pass_rate 100 (1000 tenths), and every resolved rule without required columns
\* is in rules_executed: all five of them when no rule_ids are given.
C6_EmptyDataset ==
    (Done /\ NumRows(df) = 0) =>
      /\ result.total_rows = 0
      /\ result.errors = <<>>
      /\ pass_rate(result) = 1000
      /\ \A k \in DOMAIN Resolved :
            Resolved[k].id \in NoRequiredColumnIds =>
                Resolved[k].id \in Range(result.rules_executed)
      /\ rule_ids = None => NoRequiredColumnIds \subseteq Range(result.rules_executed)

\* a call with all rules on a dataset with columns, a mapping and no rows
C6_Witness ==
    /\ Done
    /\ NumRows(df) = 0
    /\ rule_ids = None
    /\ columns = ExactMapping
    /\ result.rules_skipped # <<>>
    /\ NoRequiredColumnIds \subseteq Range(result.rules_executed)

\* C7: read-only inputs.  The options bag, the list under numeric_columns included,
\* has the same contents after the call as before it.
C7_ReadOnlyInputs == Done => options = options0

\* C8: no cross-call state.  The findings of a call are those of the same call made
\* alone with the options as the caller set them, whatever calls went before it on
\* the same engine with the same options object.
C8_NoCrossCallState ==
    Done => result.errors = validate(registry, df, columns, options0, rule_ids).errors

\* C9: rules never fail on bad data.  An applicable default rule is never in
\* rules_skipped, whatever the cell values.
C9_RulesNeverRaise ==
    Done => \A k \in DOMAIN Resolved :
                (Resolved[k].cls # FailingRule.cls /\ Applicable(Resolved[k]))
                    => Resolved[k].id \notin Range(result.rules_skipped)

RECURSIVE GroupedBy(_, _, _)
\* errs is one block of findings per id of ids, in order, each block of that rule's
\* findings only and in the order Ordered accepts
GroupedBy(Ordered(_), errs, ids) ==
    IF ids = <<>> THEN errs = <<>>
    ELSE \E n \in 0..Len(errs) :
            /\ \A i \in 1..n : errs[i].rule_id = Head(ids)
            /\ Ordered(SubSeq(errs, 1, n))
            /\ GroupedBy(Ordered, SubSeq(errs, n + 1, Len(errs)), Tail(ids))

NonDecreasingRows(block) ==
    \A i, j \in DOMAIN block : i < j => block[i].row_index <= block[j].row_index

\* C10 as stated: the findings are grouped by rule in rule execution order and, within
\* one rule, in non-decreasing row_index order.
C10_RowOrderWithinRule ==
    Done => GroupedBy(NonDecreasingRows, result.errors, result.rules_executed)

\* the position of text in a sequence of texts, 0 when it is not there
IndexIn(seq, text) ==
    IF \E k \in DOMAIN seq : seq[k] = text THEN CHOOSE k \in DOMAIN seq : seq[k] = text ELSE 0

\* The pass of its rule a finding comes from: Required Fields makes one pass over
\* the rows per required field (plz, ort, strasse), Data Type Consistency one per
\* numeric column, Encoding Issues one per dataset column, EGID Uniqueness reports
\* one duplicate group after the other in the order the groups' first rows have;
\* every other rule makes a single pass.
PassOf(f) ==
    CASE f.rule_id = "R-ADDR-01" ->
            IndexIn(<<"PLZ fehlt oder ist leer", "Ort fehlt oder ist leer",
                      "Strasse fehlt oder ist leer">>, f.message)
      [] f.rule_id = "R-GEN-03" ->
            IndexIn(DataTypeNumericCols(df, columns, options0), f.column)
      [] f.rule_id = "R-GEN-04" -> IndexIn(df.columns, f.column)
      [] f.rule_id = "R-EGID-02" -> f.ref[1]
      [] OTHER -> 0

PassThenRowOrder(block) ==
    \A i, j \in DOMAIN block :
        i < j => \/ PassOf(block[i]) < PassOf(block[j])
                 \/ /\ PassOf(block[i]) = PassOf(block[j])
                    /\ block[i].row_index <= block[j].row_index

\* C10 as amended: the findings are grouped by rule in rule execution order and,
\* within one rule, by pass of the rule and in non-decreasing row_index order within
\* a pass.
C10_PassThenRowOrder ==
    Done => GroupedBy(PassThenRowOrder, result.errors, result.rules_executed)

\* EGID Uniqueness reported two duplicate groups, the later row first, after another
\* rule's findings
C10_Witness ==
    /\ Done
    /\ \E i, j \in DOMAIN result.errors :
          /\ i < j
          /\ result.errors[i].rule_id = "R-EGID-02"
          /\ result.errors[j].rule_id = "R-EGID-02"
          /\ result.errors[i].row_index > result.errors[j].row_index
    /\ \E f \in Range(result.errors) : f.rule_id = "R-GEN-01"

\* the position of a rule id in the registry, 0 when it is not registered
RegistryPos(id) ==
    IF \E k \in DOMAIN registry : registry[k].id = id
    THEN CHOOSE k \in DOMAIN registry : registry[k].id = id
    ELSE 0

InRegistryOrder(ids) ==
    \A i, j \in DOMAIN ids : i < j => RegistryPos(ids[i]) <= RegistryPos(ids[j])

\* C11 as stated: for every rule_ids argument the ids in rules_executed, the ids in
\* rules_skipped and the rule ids of the findings are in registry iteration order.
C11_RegistryOrder ==
    Done =>
      /\ InRegistryOrder(result.rules_executed)
      /\ InRegistryOrder(result.rules_skipped)
      /\ InRegistryOrder([k \in DOMAIN result.errors |-> result.errors[k].rule_id])

\* the ids in the order the call goes through them: the caller's rule_ids without
\* the unknown ids when the rules are resolved from rule_ids, the registry's
\* iteration order when all registered rules are used
ProcessingOrder ==
    IF rule_ids # None /\ rule_ids # <<>>
    THEN LET Registered(id) == id \in RegisteredIds IN SelectSeq(rule_ids, Registered)
    ELSE [k \in DOMAIN registry |-> registry[k].id]

AnyOrder(block) == TRUE

\* C11 as amended: rules_executed and rules_skipped list their ids in processing
\* order, and the findings come rule by rule in the order of rules_executed.
C11_ProcessingOrder ==
    Done =>
      LET Executed(id) == id \in Range(result.rules_executed)
          Skipped(id) == id \in Range(result.rules_skipped)
      IN  /\ result.rules_executed = SelectSeq(ProcessingOrder, Executed)
          /\ result.rules_skipped = SelectSeq(ProcessingOrder, Skipped)
          /\ GroupedBy(AnyOrder, result.errors, result.rules_executed)

\* the caller listed two rules against registry order, and both ran in the caller's
\* order and left findings
C11_Witness ==
    /\ Done
    /\ rule_ids = <<"R-GEN-03", "R-ADDR-02">>
    /\ result.rules_executed = <<"R-GEN-03", "R-ADDR-02">>
    /\ \E i, j \in DOMAIN result.errors :
          /\ i < j
          /\ result.errors[i].rule_id = "R-GEN-03"
          /\ result.errors[j].rule_id = "R-ADDR-02"

\* the messages of the rule's findings on row i (1-based), in the order of the result
MessagesAt(rule_id, i) ==
    LET Here(f) == f.rule_id = rule_id /\ f.row_index = i - 1
        found == SelectSeq(result.errors, Here)
    IN  [k \in DOMAIN found |-> found[k].message]

\* what Postal Code Format is to report on the example values, for12000 being the
\* message expected on '12000'
PLZExpected(v, for12000) ==
    CASE v \in {T_8001, T_8001_0} -> <<>>
      [] v = T_800 -> <<"PLZ muss 4-stellig sein">>
      [] v = T_ABCD -> <<"PLZ muss numerisch sein">>
      [] v = T_12000 -> <<for12000>>

PLZExamplesHold(for12000) ==
    (Done /\ "R-ADDR-02" \in Range(result.rules_executed)) =>
        \A i \in 1..NumRows(df) :
            Cell(df, i, N_PLZ) \in {T_8001, T_8001_0, T_800, T_ABCD, T_12000} =>
                MessagesAt("R-ADDR-02", i) = PLZExpected(Cell(df, i, N_PLZ), for12000)

\* C12 as stated: '8001' and '8001.0' yield no finding, '800' the length finding,
\* One call on datasets of numeric coordinate pairs, under each coordinate system
\* option.
InitBounds == InitWith({create_default_registry}, BoundsOptions, BoundsInputs)

SpecBounds == InitBounds /\ [][Next]_vars

\* One call on datasets of coordinate pairs with missing values.
InitPresence == InitWith({create_default_registry}, {NoOptions}, PresenceInputs)

SpecPresence == InitPresence /\ [][Next]_vars

----------------------------------------------------------------------------
(* The web application: clients uploading, validating, downloading and     *)
(* deleting while time passes                                              *)

MaxSessions == 2
MaxTicks == 2

\* any session id a client may send: the ids handed out and one never handed out
SessionIds == 1..(MaxSessions + 1)

T_a_xlsx == <<"a", ".", "x", "l", "s", "x">>
T_a_csv == <<"a", ".", "c", "s", "v">>

\* the files a client uploads: a sheet with a postal code that is too short, a sheet
\* without rows, and a file that is no Excel file
Uploads ==
    {[filename |-> T_a_xlsx, df |-> [columns |-> <<N_PLZ>>, rows |-> <<<<T_800>>>>]],
     [filename |-> T_a_xlsx, df |-> [columns |-> <<N_PLZ>>, rows |-> <<>>]],
     [filename |-> T_a_csv, df |-> [columns |-> <<N_PLZ>>, rows |-> <<<<T_800>>>>]]}

\* the bodies of a validate request: the defaults of ValidationConfig, and a mapping
\* with one rule named
Configs ==
    {[columns |-> NoMapping, options |-> NoOptions, rule_ids |-> None],
     [columns |-> ExactMapping, options |-> NoOptions, rule_ids |-> <<"R-ADDR-02">>]}

\* POST /api/upload; uuid4 gives an id that was never given before
Upload(file) ==
    /\ issued < MaxSessions
    /\ LET out == upload_file(cleanup_expired_sessions(sessions, now), issued + 1,
                              file.filename, file.df, now)
       IN  /\ sessions' = out.sessions
           /\ issued' = IF out.issued THEN issued + 1 ELSE issued
           /\ response' = out.response
    /\ UNCHANGED <<registry, options, options0, df, columns, rule_ids, result, previous, calls,
                   breakdown, pc, now>>

\* config.columns or engine.detect_columns(df)
ColumnsOf(ss, session_id, config) ==
    IF config.columns # NoMapping \/ session_id \notin DOMAIN ss THEN config.columns
    ELSE detect_columns(ss[session_id].df)

\* engine.validate(df, validation_config, config.rule_ids) on the session's dataset
ValidateSession(ss, session_id, cols, config) ==
    IF session_id \notin DOMAIN ss THEN NoResult
    ELSE validate(registry, ss[session_id].df, cols, config.options, config.rule_ids)

ValidateWith(ss, session_id, cols, config) ==
    LET out == validate_data(ss, session_id, cols, ValidateSession(ss, session_id, cols, config),
                             now)
    IN  /\ sessions' = out.sessions
        /\ response' = out.response

\* validate_data after its clean-up
ValidateCleaned(ss, session_id, config) ==
    ValidateWith(ss, session_id, ColumnsOf(ss, session_id, config), config)

\* POST /api/validate/{session_id}
Validate(session_id, config) ==
    /\ ValidateCleaned(cleanup_expired_sessions(sessions, now), session_id, config)
    /\ UNCHANGED <<registry, options, options0, df, columns, rule_ids, result, previous, calls,
                   breakdown, pc, issued, now>>

\* GET /api/session/{session_id}/download/report
DownloadReport(session_id) ==
    /\ sessions' = cleanup_expired_sessions(sessions, now)
    /\ response' = download_report(cleanup_expired_sessions(sessions, now), session_id, now)
    /\ UNCHANGED <<registry, options, options0, df, columns, rule_ids, result, previous, calls,
                   breakdown, pc, issued, now>>

\* DELETE /api/session/{session_id}
DeleteSession(session_id) ==
    /\ sessions' = delete_session(sessions, session_id)
    /\ response' = Response("delete", session_id, 200, "Session deleted", now)
    /\ UNCHANGED <<registry, options, options0, df, columns, rule_ids, result, previous, calls,
                   breakdown, pc, issued, now>>

\* the timeout passes once more without a request
Tick ==
    /\ now < MaxTicks * SESSION_TIMEOUT_MINUTES
    /\ now' = now + SESSION_TIMEOUT_MINUTES
    /\ UNCHANGED <<registry, options, options0, df, columns, rule_ids, result, previous, calls,
                   breakdown, pc, sessions, issued, response>>

InitHttp ==
    InitWith({create_default_registry}, {NoOptions},
             {[df |-> [columns |-> <<>>, rows |-> <<>>], columns |-> NoMapping,
               rule_ids |-> None]})

NextHttp ==
    \/ \E file \in Uploads : Upload(file)
    \/ \E session_id \in SessionIds, config \in Configs : Validate(session_id, config)
    \/ \E session_id \in SessionIds : DownloadReport(session_id)
    \/ \E session_id \in SessionIds : DeleteSession(session_id)
    \/ Tick

SpecHttp == InitHttp /\ [][NextHttp]_vars

\* 'ABCD' the numeric finding and '12000' the out-of-range finding.
C12_PLZExamples == PLZExamplesHold("PLZ ausserhalb gueltiger Bereich")

\* C12 as amended: as stated, except that '12000' yields the length finding; the
\* out-of-range finding is that of a 4-digit value below 1000 such as '0999'.
C12_PLZExamplesLengthFirst ==
    /\ PLZExamplesHold("PLZ muss 4-stellig sein")
    /\ (Done /\ "R-ADDR-02" \in Range(result.rules_executed)) =>
          \A i \in 1..NumRows(df) :
              Cell(df, i, N_PLZ) = T_0999 =>
                  MessagesAt("R-ADDR-02", i) = <<"PLZ ausserhalb gueltiger Bereich">>

\* the rule ran on '8001.0' and '12000': nothing on the first, the length finding on
\* the second
C12_Witness ==
    /\ Done
    /\ "R-ADDR-02" \in Range(result.rules_executed)
    /\ df.rows = <<<<T_8001_0>>, <<T_12000>>>>
    /\ MessagesAt("R-ADDR-02", 1) = <<>>
    /\ MessagesAt("R-ADDR-02", 2) = <<"PLZ muss 4-stellig sein">>

CoordSystemOption == Get(options0, "coordinate_system", "auto")

IsPair(i, e, n) == Cell(df, i, N_E) = e /\ Cell(df, i, N_N) = n

\* Swiss Bounds on the example pairs, outside being what is expected on the pair
\* (1000000, 500000) under automatic detection
SwissBoundsExamplesHold(outside) ==
    (Done /\ "R-COORD-02" \in Range(result.rules_executed) /\ CoordSystemOption = "auto") =>
        \A i \in 1..NumRows(df) :
            /\ IsPair(i, T_2600000, T_1200000) => MessagesAt("R-COORD-02", i) = <<>>
            /\ IsPair(i, T_7_5, T_46_9) => MessagesAt("R-COORD-02", i) = <<>>
            /\ IsPair(i, T_1000000, T_500000) => MessagesAt("R-COORD-02", i) = outside

\* C13 as stated: under automatic detection (2600000, 1200000) and (7.5, 46.9) yield
\* no finding and (1000000, 500000) yields exactly two findings, one per axis.
C13_SwissBoundsExamples ==
    SwissBoundsExamplesHold(<<"E-Koordinate ausserhalb Schweiz",
                              "N-Koordinate ausserhalb Schweiz">>)

\* C13 as amended: under automatic detection (1000000, 500000) yields exactly one
\* finding, that the coordinate system is not recognised; it yields the two per-axis
\* findings when the options set the coordinate system to LV95.
C13_SwissBoundsUndetected ==
    /\ SwissBoundsExamplesHold(<<"Koordinatensystem nicht erkennbar">>)
    /\ (Done /\ "R-COORD-02" \in Range(result.rules_executed) /\ CoordSystemOption = "LV95") =>
          \A i \in 1..NumRows(df) :
              IsPair(i, T_1000000, T_500000) =>
                  MessagesAt("R-COORD-02", i) = <<"E-Koordinate ausserhalb Schweiz",
                                                  "N-Koordinate ausserhalb Schweiz">>

\* the rule ran under automatic detection on (1000000, 500000) and (7.5, 46.9): one
\* finding on the first pair, none on the second
C13_Witness ==
    /\ Done
    /\ "R-COORD-02" \in Range(result.rules_executed)
    /\ CoordSystemOption = "auto"
    /\ df.rows = <<<<T_1000000, T_500000>>, <<T_7_5, T_46_9>>>>
    /\ MessagesAt("R-COORD-02", 1) = <<"Koordinatensystem nicht erkennbar">>
    /\ MessagesAt("R-COORD-02", 2) = <<>>

\* the number the EGID cell of row i denotes, if it denotes one
EGIDOfRow(i) == EGIDParse(Strip(Str(Cell(df, i, L_egid))))

EGIDValid(i) == ~IsBlank(Cell(df, i, L_egid)) /\ EGIDOfRow(i).kind = "ok"

EGIDMalformed(i) == ~IsBlank(Cell(df, i, L_egid)) /\ EGIDOfRow(i).kind = "ValueError"

\* the rows holding the same EGID as row i, in row order
EGIDOccurrences(i) ==
    LET Same(j) == EGIDValid(j) /\ EGIDOfRow(j).val = EGIDOfRow(i).val
    IN  SelectSeq([j \in 1..NumRows(df) |-> j], Same)

EGIDFindingsAt(i) ==
    LET Here(f) == f.rule_id = "R-EGID-02" /\ f.row_index = i - 1
    IN  SelectSeq(result.errors, Here)

\* C14: EGID Uniqueness.  For every dataset, each group of rows of the same EGID with
\* more than one occurrence has exactly one finding on each occurrence after the
\* first and none on the first, and each finding lists the display rows
\* (row_index + 2) of all the occurrences.
C14_EGIDUniqueness ==
    Done =>
        \A i \in 1..NumRows(df) :
            (EGIDValid(i) /\ Len(EGIDOccurrences(i)) > 1) =>
                IF EGIDOccurrences(i)[1] = i
                THEN EGIDFindingsAt(i) = <<>>
                ELSE /\ Len(EGIDFindingsAt(i)) = 1
                     /\ EGIDFindingsAt(i)[1].ref
                          = [k \in 1..Len(EGIDOccurrences(i)) |-> EGIDOccurrences(i)[k] + 1]

\* C15: EGID Uniqueness skips malformed values.  A non-empty EGID cell that is not a
\* valid number is never grouped and never has an EGID Uniqueness finding, also when
\* the same malformed text is in several rows.
C15_MalformedSkipped ==
    Done =>
        \A i \in 1..NumRows(df) :
            EGIDMalformed(i) =>
                /\ EGIDFindingsAt(i) = <<>>
                /\ \A k \in DOMAIN result.errors :
                      result.errors[k].rule_id = "R-EGID-02" => (i + 1) \notin Range(result.errors[k].ref)

\* the compared columns: the given key columns that exist, or all columns
ComparedColumns ==
    LET Exists(c) == InColumns(df, c)
        given == Get(options0, "duplicate_key_columns", <<>>)
    IN  IF given # <<>> THEN SelectSeq(given, Exists) ELSE df.columns

\* the rows before row i that equal it in every compared column
EarlierIdentical(i) ==
    {j \in 1..(i - 1) :
        \A k \in DOMAIN ComparedColumns :
            Cell(df, j, ComparedColumns[k]) = Cell(df, i, ComparedColumns[k])}

DuplicateFindingsAt(i) ==
    LET Here(f) == f.rule_id = "R-GEN-01" /\ f.row_index = i - 1
    IN  SelectSeq(result.errors, Here)

\* C16: Duplicate Rows.  Over the compared columns a row is flagged iff some earlier
\* row has identical values in every compared column, the finding naming the
\* display row of the first such row; rows that differ in a compared cell are never
\* flagged as duplicates of each other, cell texts containing '|' included.
C16_DuplicateRows ==
    (Done /\ "R-GEN-01" \in Range(result.rules_executed)) =>
        \A i \in 1..NumRows(df) :
            IF EarlierIdentical(i) = {}
            THEN DuplicateFindingsAt(i) = <<>>
            ELSE /\ Len(DuplicateFindingsAt(i)) = 1
                 /\ \E j \in EarlierIdentical(i) :
                       /\ \A k \in EarlierIdentical(i) : j <= k
                       /\ DuplicateFindingsAt(i)[1].ref = <<j + 1>>

CategoryNames == {"address", "coordinates", "egid", "general", "custom"}

CategoryCount(c) == Get(get_errors_by_category(result), c, 0)

CategorySum ==
    CategoryCount("address") + CategoryCount("coordinates") + CategoryCount("egid")
      + CategoryCount("general") + CategoryCount("custom")

\* the findings whose rule id has a '-', and so a second segment
Segmented == {k \in DOMAIN result.errors : Contains(IdText(result.errors[k].rule_id), "-")}

\* the text between the first '-' of a rule id and the next
SecondSegment(id) == Before(After(IdText(id), "-"), "-")

\* the category of a segment, custom being the category given to CUSTOM
CategoryOfSegment(seg, custom) ==
    CASE seg = <<"A", "D", "D", "R">> -> "address"
      [] seg = <<"C", "O", "O", "R", "D">> -> "coordinates"
      [] seg = <<"E", "G", "I", "D">> -> "egid"
      [] seg = <<"C", "U", "S", "T", "O", "M">> -> custom
      [] OTHER -> "general"

CategoryCountsAre(custom) ==
    /\ DOMAIN get_errors_by_category(result) \subseteq CategoryNames
    /\ \A c \in CategoryNames :
          CategoryCount(c)
            = Cardinality({k \in Segmented :
                  CategoryOfSegment(SecondSegment(result.errors[k].rule_id), custom) = c})

\* C17 as stated: every finding is tallied exactly once, under the category of its
\* rule id's second segment, any segment other than ADDR, COORD, EGID and GEN
\* (CUSTOM included) counting as general; the counts sum to the number of findings.
C17_CategoryTally ==
    Done => CategoryCountsAre("general") /\ CategorySum = Len(result.errors)

\* C17 as amended: CUSTOM counts as custom, a finding whose rule id has no '-' is
\* tallied nowhere, and the counts sum to the number of findings whose rule id has
\* a '-'.
C17_CategoryTallySegmented ==
    Done => CategoryCountsAre("custom") /\ CategorySum = Cardinality(Segmented)

\* findings of rules with a CUSTOM segment, with a segment of no category and with
\* no '-' were tallied
C17_Witness ==
    /\ Done
    /\ {"R-CUSTOM-02", "R-XYZ-01", "NODASH", "R-ADDR-02"} \subseteq Range(result.rules_executed)
    /\ CategoryCount("custom") = 2
    /\ CategoryCount("general") >= 2
    /\ CategoryCount("address") >= 1
    /\ CategorySum = Len(result.errors) - 2

Reported == pc = "reported"

\* the findings of the given severity on a row of the broken-down dataset whose
\* value in the dimension column goes under key
FindingsUnder(key, severity) ==
    {k \in DOMAIN result.errors :
        /\ result.errors[k].severity = severity
        /\ result.errors[k].row_index < NumRows(breakdown.df)
        /\ DimKey(Cell(breakdown.df, result.errors[k].row_index + 1, breakdown.column)) = key}

RECURSIVE SumOfTotals(_, _)
SumOfTotals(value, keys) ==
    IF keys = {} THEN 0
    ELSE LET key == CHOOSE k \in keys : TRUE
         IN  value[key].total + SumOfTotals(value, keys \ {key})

\* C18: errors_by_dimension(dataset, column).  The keys are exactly the distinct
\* values of the column over the dataset's rows, missing values under one sentinel
\* key; the totals sum to the number of rows; each key's errors and warnings are the
\* numbers of ERROR and WARNING findings whose row_index is below the dataset length
\* and whose row has that value; INFO findings are counted nowhere, and findings
\* beyond the dataset are ignored without failure.
C18_ErrorsByDimension ==
    (Reported /\ InColumns(breakdown.df, breakdown.column)) =>
        /\ DOMAIN breakdown.value
             = {DimKey(Cell(breakdown.df, i, breakdown.column)) : i \in 1..NumRows(breakdown.df)}
        /\ SumOfTotals(breakdown.value, DOMAIN breakdown.value) = NumRows(breakdown.df)
        /\ \A key \in DOMAIN breakdown.value :
              /\ breakdown.value[key].errors = Cardinality(FindingsUnder(key, ERROR))
              /\ breakdown.value[key].warnings = Cardinality(FindingsUnder(key, WARNING))

\* a breakdown by city of the first row only, of a result with two ERROR findings and an
\* INFO finding on that row and findings on the row left out
C18_Witness ==
    /\ Reported
    /\ breakdown.column = N_Ort
    /\ NumRows(df) = 2 /\ NumRows(breakdown.df) = 1
    /\ \E k \in DOMAIN result.errors :
          result.errors[k].severity = INFO /\ result.errors[k].row_index = 0
    /\ \E k \in DOMAIN result.errors : result.errors[k].row_index = 1
    /\ breakdown.value = (T_leer :> [total |-> 1, errors |-> 2, warnings |-> 0])

Detected == pc = "detected"

LogicalNames == {patterns[p].logical_name : p \in DOMAIN patterns}

\* the text matches the column name up to the case of the letters
MatchesColumn(name, col) == Upper(name) = Upper(col)

\* the synonyms of the p-th logical name that match a column of the dataset
MatchingSynonyms(p) ==
    {k \in DOMAIN patterns[p].possible_names :
        \E j \in DOMAIN df.columns : MatchesColumn(patterns[p].possible_names[k], df.columns[j])}

\* C19: detect_columns.  For each of the 12 logical names the mapping holds the
\* dataset column matching, case-insensitively, the earliest synonym of that name
\* that matches any dataset column; logical names with no matching synonym are
\* absent; every value of the mapping is a column name of the dataset.
C19_DetectColumns ==
    Detected =>
        /\ Cardinality(LogicalNames) = 12
        /\ DOMAIN columns \subseteq LogicalNames
        /\ \A l \in DOMAIN columns : InColumns(df, columns[l])
        /\ \A p \in DOMAIN patterns :
              IF MatchingSynonyms(p) = {}
              THEN patterns[p].logical_name \notin DOMAIN columns
              ELSE /\ patterns[p].logical_name \in DOMAIN columns
                   /\ \E k \in MatchingSynonyms(p) :
                         /\ \A m \in MatchingSynonyms(p) : k <= m
                         /\ MatchesColumn(patterns[p].possible_names[k],
                                          columns[patterns[p].logical_name])

\* columns Zip and PLZ, synonyms of one logical name: the earlier synonym's column is
\* held, in the case the dataset writes it
C19_Witness ==
    /\ Detected
    /\ df.columns = <<<<"Z", "i", "p">>, N_PLZ>>
    /\ columns = (L_plz :> N_PLZ)

\* the registry after a step still returns the rule, by its id and among all rules
StillReturned(rule) ==
    /\ get_rule(registry', rule.id) = rule
    /\ \E k \in DOMAIN get_all_rules(registry') : get_all_rules(registry')[k] = rule

\* C20 as stated: the registry is append-only.  Every rule that was registered is
\* still returned by get_rule under its id and by get_all_rules after any further
\* register call, also one of a rule with an already registered id.
C20_AppendOnly ==
    [][\A k \in DOMAIN registry : StillReturned(registry[k])]_vars

\* C20 as amended: register never removes an id or moves it; a rule with a new id is
\* appended and leaves every registered rule in place; a rule with an already
\* registered id replaces the rule of that id, at that id's position, and leaves
\* the rules of the other ids in place; get_rule returns the one rule held under an id.
C20_ReplaceInPlace ==
    [][/\ \A k \in DOMAIN registry :
             k \in DOMAIN registry' /\ registry'[k].id = registry[k].id
       /\ Len(registry') \in {Len(registry), Len(registry) + 1}
       /\ Len(registry') = Len(registry) + 1 => \A k \in DOMAIN registry : registry'[k] = registry[k]
       /\ Cardinality({k \in DOMAIN registry : registry'[k] # registry[k]}) <= 1
       /\ \A j, k \in DOMAIN registry' : registry'[j].id = registry'[k].id => j = k
       /\ \A k \in DOMAIN registry' : get_rule(registry', registry'[k].id) = registry'[k]]_vars

\* a rule of the caller's own was registered under the id of the first default rule
\* and took its place, and a rule under a new id came last
C20_Witness ==
    /\ registry[1] = FlaggingRule("R-ADDR-01")
    /\ Len(registry) = Len(create_default_registry) + 1
    /\ registry[Len(registry)] = FlaggingRule("R-CUSTOM-01")
    /\ \A k \in 2..Len(create_default_registry) : registry[k] = create_default_registry[k]

\* C21: idempotence.  The same call made twice in a row on the same unmodified
\* dataset and the same config object, of one default rule or of all rules, yields
\* the same findings in the same order.
C21_Idempotence ==
    (Done /\ calls >= 2) =>
        /\ result.errors = previous.errors
        /\ result.rules_executed = previous.rules_executed
        /\ result.rules_skipped = previous.rules_skipped

\* the data type rule was run twice with a numeric_columns list that its first run
\* extended, and reported the same non-numeric postal code both times
C21_Witness ==
    /\ Done /\ calls = 2
    /\ rule_ids = <<"R-GEN-03">>
    /\ options0 = ("numeric_columns" :> <<>>)
    /\ options = ("numeric_columns" :> <<N_PLZ, L_egid>>)
    /\ \E k \in DOMAIN result.errors : result.errors[k].column = N_PLZ
    /\ result.errors = previous.errors

\* the 26 canton codes in alphabetical order
CantonsAlphabetical ==
    <<<<"A", "G">>, <<"A", "I">>, <<"A", "R">>, <<"B", "E">>, <<"B", "L">>, <<"B", "S">>,
      <<"F", "R">>, <<"G", "E">>, <<"G", "L">>, <<"G", "R">>, <<"J", "U">>, <<"L", "U">>,
      <<"N", "E">>, <<"N", "W">>, <<"O", "W">>, <<"S", "G">>, <<"S", "H">>, <<"S", "O">>,
      <<"S", "Z">>, <<"T", "G">>, <<"T", "I">>, <<"U", "R">>, <<"V", "D">>, <<"V", "S">>,
      <<"Z", "G">>, <<"Z", "H">>>>

CantonFindingsAt(i) ==
    LET Here(f) == f.rule_id = "R-ADDR-04" /\ f.row_index = i - 1
    IN  SelectSeq(result.errors, Here)

\* the canton cell of row i, trimmed and in capitals, is one of the 26 codes
IsCantonCode(i) ==
    \E k \in DOMAIN CantonsAlphabetical :
        CantonsAlphabetical[k] = Upper(Strip(Str(Cell(df, i, N_Kt))))

\* C22: Canton Validation.  A non-empty value yields a finding iff, trimmed and in
\* capitals, it is not one of the 26 canton codes; a missing or blank value yields
\* none; every finding's suggestion lists all 26 codes in alphabetical order.
C22_CantonValidation ==
    (Done /\ "R-ADDR-04" \in Range(result.rules_executed)) =>
        /\ Len(CantonsAlphabetical) = 26
        /\ \A i \in 1..NumRows(df) :
              IF IsBlank(Cell(df, i, N_Kt)) \/ IsCantonCode(i)
              THEN CantonFindingsAt(i) = <<>>
              ELSE Len(CantonFindingsAt(i)) = 1
        /\ \A k \in DOMAIN result.errors :
              result.errors[k].rule_id = "R-ADDR-04" => result.errors[k].ref = CantonsAlphabetical

\* 'zh' in the first row without a finding, 'XX' in the second with one
C22_Witness ==
    /\ Done
    /\ "R-ADDR-04" \in Range(result.rules_executed)
    /\ df.rows = <<<<<<"z", "h">>>>, <<<<"X", "X">>>>>>
    /\ CantonFindingsAt(1) = <<>>
    /\ Len(CantonFindingsAt(2)) = 1

\* the trimmed text of a postal code, a text in decimal form that denotes a number
\* replaced by the text of its integer part
PLZNormalized(value) ==
    LET t == Strip(Str(value))
        n == IntOfFloat(ParseFloat(t))
    IN  IF Contains(t, ".") /\ n.kind = "ok" THEN IntToStr(n.val) ELSE t

\* the messages the decision chain gives a normalized postal code
PLZChain(t) ==
    IF ~AllDigits(t) THEN <<"PLZ muss numerisch sein">>
    ELSE IF Len(t) # 4 THEN <<"PLZ muss 4-stellig sein">>
    ELSE IF NatOfDigits(t) < 1000 \/ NatOfDigits(t) > 9999
    THEN <<"PLZ ausserhalb gueltiger Bereich">>
    ELSE <<>>

\* C24: Postal Code Format decision chain.  Each non-empty value yields at most one
\* finding, the first that applies to its normalized text: not all digits, then a
\* length other than 4, then a value outside 1000..9999; a missing or blank value
\* yields none.
C24_PLZDecisionChain ==
    Done =>
        \A i \in 1..NumRows(df) :
            MessagesAt("R-ADDR-02", i)
              = IF IsBlank(Cell(df, i, N_PLZ)) THEN <<>>
                ELSE PLZChain(PLZNormalized(Cell(df, i, N_PLZ)))

\* the severities of the EGID Format findings on row i
EGIDFormatSeverities(i) ==
    LET Here(f) == f.rule_id = "R-EGID-01" /\ f.row_index = i - 1
        found == SelectSeq(result.errors, Here)
    IN  [k \in DOMAIN found |-> found[k].severity]

\* C27: EGID Format.  Each non-empty value yields at most one finding: an ERROR when
\* it is not numeric, an ERROR when its integer is 0 or less, a WARNING (never an
\* ERROR) when its integer is above 999999999, none otherwise; a missing or blank
\* value yields none.
C27_EGIDFormat ==
    Done =>
        \A i \in 1..NumRows(df) :
            /\ Len(EGIDFormatSeverities(i)) <= 1
            /\ IsBlank(Cell(df, i, L_egid)) => EGIDFormatSeverities(i) = <<>>
            /\ EGIDMalformed(i) => EGIDFormatSeverities(i) = <<ERROR>>
            /\ EGIDValid(i) =>
                  EGIDFormatSeverities(i)
                    = IF EGIDOfRow(i).val <= 0 THEN <<ERROR>>
                      ELSE IF EGIDOfRow(i).val > 999999999 THEN <<WARNING>>
                      ELSE <<>>

----------------------------------------------------------------------------
(* C26: Coordinate Presence *)

\* the columns of the rule's findings on row i (1-based), in the order of the result
ColumnsAt(rule_id, i) ==
    LET Here(f) == f.rule_id = rule_id /\ f.row_index = i - 1
        found == SelectSeq(result.errors, Here)
    IN  [k \in DOMAIN found |-> found[k].column]

\* a cell that is null or blank after trimming
CoordMissing(v) == v = NaN \/ Strip(v) = <<>>

\* C26: Coordinate Presence yields exactly one finding on a row where exactly one of
\* easting and northing is missing (null or blank after trimming), attached to the
\* missing column, and no finding where both are missing or both are present.
C26_CoordinatePresence ==
    (Done /\ "R-COORD-01" \in Range(result.rules_executed)) =>
        \A i \in 1..NumRows(df) :
            LET e_missing == CoordMissing(Cell(df, i, N_E))
                n_missing == CoordMissing(Cell(df, i, N_N))
            IN  ColumnsAt("R-COORD-01", i) =
                    IF e_missing /\ ~n_missing THEN <<N_E>>
                    ELSE IF n_missing /\ ~e_missing THEN <<N_N>>
                    ELSE <<>>

\* the rule ran on a row with a blank easting and a northing, and on a row with both
\* values null: one finding on the easting column of the first, none on the second
C26_Witness ==
    /\ Done
    /\ "R-COORD-01" \in Range(result.rules_executed)
    /\ df.rows = <<<<T_blank, T_1200000>>, <<NaN, NaN>>>>
    /\ ColumnsAt("R-COORD-01", 1) = <<N_E>>
    /\ ColumnsAt("R-COORD-01", 2) = <<>>

----------------------------------------------------------------------------
(* C25: Swiss Bounds, row by row *)

\* the numeric coordinate texts of the datasets, in tenths of a unit
Tenths(v) ==
    CASE v = T_2600000 -> 26000000
      [] v = T_2400000 -> 24000000
      [] v = T_1000000 -> 10000000
      [] v = T_1200000 -> 12000000
      [] v = T_1300000 -> 13000000
      [] v = T_7_5 -> 75
      [] v = T_5_5 -> 55
      [] v = T_46_9 -> 469

\* the system of a pair (in tenths): the forced one, or the detected one
SystemOf(option, e, n) ==
    IF option # "auto" THEN option
    ELSE IF 20000000 < e /\ e < 30000000 /\ 10000000 < n /\ n < 20000000 THEN "LV95"
    ELSE IF 50 < e /\ e < 110 /\ 450 < n /\ n < 480 THEN "WGS84"
    ELSE "None"

\* the easting (in tenths) violates the system's bounding box
EastingViolated(system, e) ==
    IF system = "LV95" THEN ~(24850000 <= e /\ e <= 28340000) ELSE ~(59 <= e /\ e <= 105)

\* the northing (in tenths) violates the system's bounding box
NorthingViolated(system, n) ==
    IF system = "LV95" THEN ~(10750000 <= n /\ n <= 12960000) ELSE ~(458 <= n /\ n <= 479)

\* the columns Swiss Bounds is to report on for a numeric pair
BoundsColumns(system, e, n) ==
    IF system = "None" THEN <<N_E \o <<"/">> \o N_N>>
    ELSE (IF EastingViolated(system, e) THEN <<N_E>> ELSE <<>>)
         \o (IF NorthingViolated(system, n) THEN <<N_N>> ELSE <<>>)

\* C25: on a row with both values numeric, Swiss Bounds yields one finding per
\* violated axis of the bounding box of the forced or detected system, and exactly
\* one finding, which is no bounds finding, when detection is inconclusive; a row
\* where either value is missing yields no finding.
C25_SwissBoundsPerRow ==
    (Done /\ "R-COORD-02" \in Range(result.rules_executed)) =>
        \A i \in 1..NumRows(df) :
            LET e_val == Cell(df, i, N_E)
                n_val == Cell(df, i, N_N)
            IN  IF e_val = NaN \/ n_val = NaN
                THEN MessagesAt("R-COORD-02", i) = <<>>
                ELSE LET system == SystemOf(CoordSystemOption, Tenths(e_val), Tenths(n_val))
                     IN  /\ ColumnsAt("R-COORD-02", i) =
                                BoundsColumns(system, Tenths(e_val), Tenths(n_val))
                         /\ system = "None" =>
                                MessagesAt("R-COORD-02", i) =
                                    <<"Koordinatensystem nicht erkennbar">>

\* the rule ran under automatic detection on a pair in the LV95 window with only the
\* easting outside the box and on a pair in no window: one finding on the easting of
\* the first, the single detection finding on the second
C25_Witness ==
    /\ Done
    /\ "R-COORD-02" \in Range(result.rules_executed)
    /\ CoordSystemOption = "auto"
    /\ df.rows = <<<<T_2400000, T_1200000>>, <<T_1000000, T_46_9>>>>
    /\ MessagesAt("R-COORD-02", 1) = <<"E-Koordinate ausserhalb Schweiz">>
    /\ MessagesAt("R-COORD-02", 2) = <<"Koordinatensystem nicht erkennbar">>

----------------------------------------------------------------------------
(* C28: findings come only from executed rules *)

\* the ids of the result's findings
FindingIds == {result.errors[j].rule_id : j \in DOMAIN result.errors}

\* C28: in every result returned by validate, each finding's rule_id is in
\* rules_executed, and no finding carries the id of a rule that is only in
\* rules_skipped.
C28_FindingsFromExecuted ==
    (Done /\ result.exc = "") =>
        /\ FindingIds \subseteq Range(result.rules_executed)
        /\ FindingIds \cap (Range(result.rules_skipped) \ Range(result.rules_executed)) = {}

\* a call returned findings while one rule was skipped for a column that is not there
\* and another because it raised
C28_Witness ==
    /\ Done
    /\ result.exc = ""
    /\ result.errors # <<>>
    /\ "R-CUSTOM-01" \in Range(result.rules_skipped)
    /\ "R-EGID-01" \in Range(result.rules_skipped)
    /\ "R-ADDR-01" \in Range(result.rules_executed)

----------------------------------------------------------------------------
(* C29: count consistency *)

RECURSIVE SumOfCounts(_, _)
SumOfCounts(counts, keys) ==
    IF keys = {} THEN 0
    ELSE LET key == CHOOSE k \in keys : TRUE
         IN  counts[key] + SumOfCounts(counts, keys \ {key})

\* C29: for every result, error_count + warning_count + info_count is the number of
\* findings, and errors_by_rule has one key per distinct rule id among the findings
\* with counts that sum to the number of findings.
C29_CountConsistency ==
    (Done /\ result.exc = "") =>
        /\ error_count(result) + warning_count(result) + info_count(result)
              = Len(result.errors)
        /\ DOMAIN get_errors_by_rule(result) = FindingIds
        /\ SumOfCounts(get_errors_by_rule(result), FindingIds) = Len(result.errors)

\* a result with findings of each severity, two of them warnings on one row, from more
\* than one rule
C29_Witness ==
    /\ Done
    /\ result.exc = ""
    /\ error_count(result) > 0
    /\ info_count(result) > 0
    /\ \E j, k \in DOMAIN result.errors :
          /\ j # k
          /\ result.errors[j].severity = WARNING
          /\ result.errors[k].severity = WARNING
          /\ result.errors[j].row_index = result.errors[k].row_index
    /\ Cardinality(FindingIds) >= 3

----------------------------------------------------------------------------
(* C23: session expiry *)

\* the most recent request was a validate or a download
Answered == response.endpoint \in {"validate", "download"}

\* C23: a validate or download request made more than SESSION_TIMEOUT_MINUTES after
\* the session was created finds the session removed by cleanup_expired_sessions and
\* answers 404: a request leaves its session stored only when it was made within the
\* timeout, and answers 404 when the session is not stored.
C23_SessionExpiry ==
    Answered =>
        /\ (response.session_id \in DOMAIN sessions) =>
              response.at <= sessions[response.session_id].created_at + SESSION_TIMEOUT_MINUTES
        /\ (response.session_id \notin DOMAIN sessions) => response.status = 404

----------------------------------------------------------------------------
(* C30: session lifecycle *)

\* download_report answers 400 for a session that has no result and 404 for a session
\* id that is not stored
DownloadAnswers ==
    response.endpoint = "download" =>
        IF response.session_id \notin DOMAIN sessions THEN response.status = 404
        ELSE ("result" \notin DOMAIN sessions[response.session_id]) => response.status = 400

\* a session id that was handed out and is stored no longer
Deleted(sid) == sid \in 1..issued /\ sid \notin DOMAIN sessions

\* validate and download answer 404 on a deleted session
DeletedAnswers == (Answered /\ Deleted(response.session_id)) => response.status = 404

\* a validate request leaves every other session as it is
ValidateIsolated ==
    (response' # response /\ response'.endpoint = "validate") =>
        \A sid \in DOMAIN sessions \ {response'.session_id} :
            sid \in DOMAIN sessions' /\ sessions'[sid] = sessions[sid]

\* C30: download_report answers 400 for a session on which validate has not run and
\* 404 for an unknown session id; after delete_session(s) every later validate or
\* download on s answers 404; validate on one session never changes what is stored
\* for another session.
C30_SessionLifecycle ==
    /\ [](DownloadAnswers /\ DeletedAnswers)
    /\ [][ValidateIsolated]_vars

\* a download answered 404 on a session that was deleted, while another session
\* holds the result of its validation
C30_Witness ==
    /\ response.endpoint = "download"
    /\ response.status = 404
    /\ Deleted(response.session_id)
    /\ \E sid \in DOMAIN sessions : "result" \in DOMAIN sessions[sid]

\* a download answered 400 on an uploaded session while another session, validated
\* before, holds its result
C30_WitnessNoResult ==
    /\ response.endpoint = "download"
    /\ response.status = 400
    /\ response.session_id = 2
    /\ DOMAIN sessions = {1, 2}
    /\ "result" \in DOMAIN sessions[1]

====
